---------------------------- MODULE Spec2Model ----------------------------
(***************************************************************************)
(* A model of the C# binding generator of cs-bindgen: the raw type         *)
(* resolver (generate/binding.rs) and the enum code generation             *)
(* (generate/enumeration.rs).                                              *)
(*                                                                         *)
(* Every generator function is a pure function of (schema, registry).  It  *)
(* either returns a token stream or panics; the model gives both outcomes  *)
(* as a value, Ok(tokens) or Panic(message).  A state of the model is a    *)
(* registry together with the last generator call and its outcome.         *)
(***************************************************************************)
EXTENDS Integers, Sequences, FiniteSets, TLC

VARIABLES types, pc, call, result, heap, native, foreign

vars == <<types, pc, call, result, heap, native, foreign>>

-----------------------------------------------------------------------------
(* Bounds of the model.                                                    *)

MaxVariants == 3
MaxFields == 2
MaxInputs == 2
MaxAllocs == 2
MaxCapacity == 2
MaxItems == 3
MaxTypes == 3

-----------------------------------------------------------------------------
(* Option<T>: None is the empty sequence, Some(x) the one-element one.     *)

None == <<>>
Some(x) == <<x>>
IsSome(o) == Len(o) > 0
Unwrap(o) == o[1]

(* The outcome of a generator function: the tokens it returns, or the      *)
(* message of the panic it dies with.                                      *)
Ok(tokens) == [kind |-> "ok", value |-> tokens]
Panic(msg) == [kind |-> "panic", value |-> msg]
IsOk(r) == r.kind = "ok"
IsPanic(r) == r.kind = "panic"

(* Range of a sequence.                                                    *)
Range(s) == {s[i] : i \in DOMAIN s}

(* All sequences over S of length lo..hi.                                  *)
SeqsOf(S, lo, hi) == UNION {[1..n -> S] : n \in lo..hi}

-----------------------------------------------------------------------------
(* The data model: type names, schemas, reprs, exports.                    *)

TypeName(name, module) == [name |-> name, module |-> module]

PrimitiveKinds ==
    {"Unit", "Bool", "Char", "I8", "I16", "I32", "I64", "ISize",
     "U8", "U16", "U32", "U64", "USize", "F32", "F64"}

Prim(kind) == [kind |-> kind]

STRING_SCHEMA == [kind |-> "String", name |-> TypeName("String", "alloc::string")]

Field(name, schema) == [name |-> name, schema |-> schema]

UnitVariant(name, discriminant) ==
    [kind |-> "Unit", name |-> name, discriminant |-> discriminant]
TupleVariant(name, fields) == [kind |-> "Tuple", name |-> name, fields |-> fields]
StructVariant(name, fields) == [kind |-> "Struct", name |-> name, fields |-> fields]

EnumSchema(name, repr, variants) ==
    [kind |-> "Enum", name |-> name, repr |-> repr, variants |-> variants]

StructSchema(kind, name, fields) == [kind |-> kind, name |-> name, fields |-> fields]

StructKinds == {"Struct", "UnitStruct", "NewtypeStruct", "TupleStruct"}

NamedType(name, binding_style, schema) ==
    [name |-> name, binding_style |-> binding_style, schema |-> schema]

(* Enum::has_data: some variant is not a unit variant.                     *)
has_data(schema) == \E i \in DOMAIN schema.variants : schema.variants[i].kind # "Unit"

(* Schema::type_name for the schemas that have one.                        *)
type_name(schema) == schema.name


-----------------------------------------------------------------------------
(* Token streams.  A C# type is one string; an identifier built with       *)
(* format_ident! is the concatenation of its parts.                        *)

(* class::quote_handle_ptr: the one raw type of every handle.              *)
quote_handle_ptr == "void*"

(* format_ident!("__{}__Raw", type_name.name): the module is not used.     *)
raw_ident(tn) == "__" \o tn.name \o "__Raw"

named_type_raw_reference(tn) == "global::" \o raw_ident(tn)

(* quote_primitive_type over the primitives an enum repr can name.         *)
quote_primitive_type(prim) ==
    CASE prim = "I8" -> "sbyte"
      [] prim = "I16" -> "short"
      [] prim = "I32" -> "int"
      [] prim = "I64" -> "long"
      [] prim = "ISize" -> "IntPtr"
      [] prim = "U8" -> "byte"
      [] prim = "U16" -> "ushort"
      [] prim = "U32" -> "uint"
      [] prim = "U64" -> "ulong"
      [] prim = "USize" -> "UIntPtr"

(* A discriminant type that defaults to the 32-bit width of a C# enum.     *)
quote_discriminant_type_int_default(schema) ==
    IF IsSome(schema.repr) THEN quote_primitive_type(Unwrap(schema.repr)) ELSE "int"

(* schema.repr.map(quote_primitive_type).unwrap_or_else(|| IntPtr)         *)
quote_discriminant_type(schema) ==
    IF IsSome(schema.repr) THEN quote_primitive_type(Unwrap(schema.repr)) ELSE "IntPtr"

(* panic!("No export found for named type {:?}", type_name)                *)
NoExportFound(tn) == Panic(<<"No export found for named type", tn.name, tn.module>>)

(* todo!(msg) panics with "not yet implemented: msg".                      *)
Todo(msg) == Panic(<<"not yet implemented", msg>>)

(* unreachable!(msg) panics with "internal error: entered unreachable code" *)
Unreachable(msg) == Panic(<<"internal error: entered unreachable code", msg>>)

-----------------------------------------------------------------------------
(* generate/binding.rs: the raw type resolver.                             *)

(* The primitive arms of raw_type_from_schema.                             *)
raw_type_from_schema_primitive(kind) ==
    CASE kind = "Unit" -> "byte"
      [] kind = "Bool" -> "byte"
      [] kind = "Char" -> "uint"
      [] kind = "I8" -> "sbyte"
      [] kind = "I16" -> "short"
      [] kind = "I32" -> "int"
      [] kind = "I64" -> "long"
      [] kind = "ISize" -> "IntPtr"
      [] kind = "U8" -> "byte"
      [] kind = "U16" -> "ushort"
      [] kind = "U32" -> "uint"
      [] kind = "U64" -> "ulong"
      [] kind = "USize" -> "UIntPtr"
      [] kind = "F32" -> "float"
      [] kind = "F64" -> "double"

(* The Schema::Enum arm of raw_type_from_schema.                           *)
raw_type_from_schema_enum(schema, registry) ==
    IF schema.name \notin DOMAIN registry
    THEN NoExportFound(schema.name)
    ELSE IF registry[schema.name].binding_style = "Handle"
    THEN Ok(quote_handle_ptr)
    ELSE IF has_data(schema)
    THEN Ok(named_type_raw_reference(schema.name))
    ELSE Ok(quote_discriminant_type(schema))

(* A resolver that forgets the binding style of a struct.                  *)
raw_type_from_schema_struct_by_value(schema, registry) ==
    IF type_name(schema) \notin DOMAIN registry
    THEN NoExportFound(type_name(schema))
    ELSE Ok(named_type_raw_reference(type_name(schema)))

(* The struct-like arm of raw_type_from_schema.                            *)
raw_type_from_schema_struct(schema, registry) ==
    IF type_name(schema) \notin DOMAIN registry
    THEN NoExportFound(type_name(schema))
    ELSE IF registry[type_name(schema)].binding_style = "Handle"
    THEN Ok(quote_handle_ptr)
    ELSE Ok(named_type_raw_reference(type_name(schema)))

(* A resolver that hands an owned sequence over as a borrowed view.        *)
raw_type_from_schema_seq_as_view(schema) ==
    IF schema.name.name = "Vec" /\ schema.name.module = "alloc::vec"
    THEN Ok("RawSlice")
    ELSE Todo("Handle unknown sequence types")

(* The Schema::Seq arm of raw_type_from_schema.                            *)
raw_type_from_schema_seq(schema) ==
    IF schema.name.name = "Vec" /\ schema.name.module = "alloc::vec"
    THEN Ok("RawVec")
    ELSE Todo("Handle unknown sequence types")

raw_type_from_schema(schema, registry) ==
    CASE schema.kind \in PrimitiveKinds -> Ok(raw_type_from_schema_primitive(schema.kind))
      [] schema.kind = "String" ->
            IF schema = STRING_SCHEMA
            THEN Ok("RawVec")
            ELSE Todo("Handle unknown custom string types")
      [] schema.kind = "Str" -> Ok("RawSlice")
      [] schema.kind = "Enum" -> raw_type_from_schema_enum(schema, registry)
      [] schema.kind \in StructKinds -> raw_type_from_schema_struct(schema, registry)
      [] schema.kind = "Array" -> Todo("Support passing fixed-size arrays")
      [] schema.kind = "Slice" -> Ok("RawSlice")
      [] schema.kind = "Seq" -> raw_type_from_schema_seq(schema)
      [] schema.kind \in {"Option", "Tuple", "Map"} -> Todo("Generate argument binding")
      [] schema.kind \in {"I128", "U128"} ->
            Unreachable("Invalid types should have already been handled")

(* A resolver whose repr table gives a character the 16-bit C# char width. *)
raw_type_from_repr_primitive_char16(kind) ==
    IF kind = "Char" THEN "ushort" ELSE raw_type_from_schema_primitive(kind)

(* The primitive arms of raw_type_from_repr.                               *)
raw_type_from_repr_primitive(kind) ==
    CASE kind = "Unit" -> "byte"
      [] kind = "Bool" -> "byte"
      [] kind = "Char" -> "uint"
      [] kind = "I8" -> "sbyte"
      [] kind = "I16" -> "short"
      [] kind = "I32" -> "int"
      [] kind = "I64" -> "long"
      [] kind = "ISize" -> "IntPtr"
      [] kind = "U8" -> "byte"
      [] kind = "U16" -> "ushort"
      [] kind = "U32" -> "uint"
      [] kind = "U64" -> "ulong"
      [] kind = "USize" -> "UIntPtr"
      [] kind = "F32" -> "float"
      [] kind = "F64" -> "double"

(* The Repr::Named arm of raw_type_from_repr.                              *)
raw_type_from_repr_named(tn, registry) ==
    IF tn \notin DOMAIN registry
    THEN NoExportFound(tn)
    ELSE IF registry[tn].binding_style = "Handle"
    THEN Ok(quote_handle_ptr)
    ELSE raw_type_from_schema(registry[tn].schema, registry)

raw_type_from_repr(repr, registry) ==
    CASE repr.kind \in PrimitiveKinds -> Ok(raw_type_from_repr_primitive(repr.kind))
      [] repr.kind = "Named" -> raw_type_from_repr_named(repr.name, registry)
      [] repr.kind \in {"Box", "Ref"} -> Ok("IntPtr")
      [] repr.kind = "Vec" -> Ok("RawVec")
      [] repr.kind = "Slice" -> Ok("RawSlice")
      [] repr.kind = "String" -> Ok("RawVec")
      [] repr.kind = "Str" -> Ok("RawSlice")
      [] repr.kind = "Array" -> Todo("Support arrays")
      [] repr.kind = "Option" -> Todo("Support optional types")
      [] repr.kind = "Result" -> Todo("Support Result")

-----------------------------------------------------------------------------
(* generate/enumeration.rs: enum code generation.                          *)

Digits == {"0", "1", "2", "3", "4", "5", "6", "7", "8", "9"}

(* syn::parse_str::<syn::Expr>(text) over the characters of the model: a   *)
(* non-empty run of digits is an integer literal, and an unbalanced        *)
(* delimiter is a parse error, on which expect() panics with its message   *)
(* and the Debug form of the syn::Error, which carries the message of the  *)
(* parser and not the text it was given.                                   *)
parse_str_expr(text) ==
    IF Len(text) > 0 /\ \A i \in DOMAIN text : text[i] \in Digits
    THEN Ok([kind |-> "Lit", digits |-> text])
    ELSE Panic(<<"Failed to parse discriminant as a LitInt", "Error(lex error)">>)

(* The index of the first panic among outcomes, 0 when there is none.      *)
FirstPanic(outs) ==
    LET bad == {i \in DOMAIN outs : IsPanic(outs[i])}
    IN IF bad = {} THEN 0 ELSE CHOOSE i \in bad : \A j \in bad : i <= j

(* A variant closure that leaves the explicit discriminant out.            *)
quote_simple_variant_no_discriminant(variant) ==
    IF variant.kind # "Unit"
    THEN Panic(<<"Simple enum can only have unit variants">>)
    ELSE Ok([ident |-> variant.name, discriminant |-> None])

(* One variant of the C# enum: the closure of quote_simple_enum_binding.   *)
quote_simple_variant(variant) ==
    IF variant.kind # "Unit"
    THEN Panic(<<"Simple enum can only have unit variants">>)
    ELSE IF IsSome(variant.discriminant)
    THEN LET lit == parse_str_expr(Unwrap(variant.discriminant))
         IN IF IsPanic(lit)
            THEN lit
            ELSE Ok([ident |-> variant.name, discriminant |-> Some(lit.value)])
    ELSE Ok([ident |-> variant.name, discriminant |-> None])

quote_simple_enum_binding(export, schema) ==
    LET variants == [i \in DOMAIN schema.variants |-> quote_simple_variant(schema.variants[i])]
        bad == FirstPanic(variants)
    IN IF bad # 0
       THEN variants[bad]
       ELSE Ok([decl |-> "enum",
                ident |-> export.name,
                variants |-> [i \in DOMAIN variants |-> variants[i].value]])

quote_raw_type_reference(export, schema) ==
    IF export.binding_style = "Value"
    THEN IF has_data(schema)
         THEN "RawEnum<" \o export.name \o "__Raw" \o ">"
         ELSE quote_discriminant_type(schema)
    ELSE quote_handle_ptr

quote_type_reference(export, schema) ==
    IF export.binding_style = "Value" /\ has_data(schema)
    THEN "I" \o export.name
    ELSE export.name

(* Variant::fields: the fields of a variant, none for a unit variant.      *)
variant_fields(variant) == IF variant.kind = "Unit" THEN <<>> ELSE variant.fields

(* to_camel_case of heck over the names of the model.                       *)
to_camel_case(name) ==
    CASE name = "number" -> "Number"
      [] name = "draw_tile" -> "DrawTile"
      [] name = "generate_tileset_json" -> "GenerateTilesetJson"
      [] name = "suit" -> "Suit"
      [] name = "tile_id" -> "TileId"
      [] name = "x" -> "X"
      [] OTHER -> name

(* The decimal text of an index.                                           *)
IndexText(i) == <<"0", "1", "2", "3", "4", "5", "6", "7", "8", "9">>[i + 1]

(* quote_cs_type: the idiomatic C# type of a field's schema.               *)
quote_cs_type(schema, registry) ==
    CASE schema.kind = "I32" -> Ok("int")
      [] schema.kind = "U8" -> Ok("byte")
      [] schema.kind = "Bool" -> Ok("bool")
      [] schema.kind \in {"String", "Str"} -> Ok("string")
      [] OTHER -> raw_type_from_schema(schema, registry)

(* binding::quote_type_binding: the raw type of a field's schema.          *)
quote_type_binding(schema, registry) == raw_type_from_schema(schema, registry)

(* Field identifiers whose positional index is counted from 1.             *)
variant_field_idents_one_based(variant) ==
    LET fields == variant_fields(variant)
    IN [i \in DOMAIN fields |->
          [ident |-> IF IsSome(fields[i].name)
                     THEN to_camel_case(Unwrap(fields[i].name))
                     ELSE "Element" \o IndexText(i),
           schema |-> fields[i].schema]]

(* The (field_ident, schema) pairs of one variant.                         *)
variant_field_idents(variant) ==
    LET fields == variant_fields(variant)
    IN [i \in DOMAIN fields |->
          [ident |-> IF IsSome(fields[i].name)
                     THEN to_camel_case(Unwrap(fields[i].name))
                     ELSE "Element" \o IndexText(i - 1),
           schema |-> fields[i].schema]]

(* The three declarations of one variant: the idiomatic struct and the two *)
(* raw structs.                                                            *)
quote_variant_structs(interface, variant, registry) ==
    LET fields == variant_field_idents(variant)
        cs == [i \in DOMAIN fields |-> quote_cs_type(fields[i].schema, registry)]
        raw == [i \in DOMAIN fields |-> quote_type_binding(fields[i].schema, registry)]
        outs == cs \o raw \o raw
        bad == FirstPanic(outs)
        typed(tys, access) ==
            [i \in DOMAIN fields |->
                [access |-> access, ty |-> tys[i].value, ident |-> fields[i].ident]]
    IN IF bad # 0
       THEN outs[bad]
       ELSE Ok(<<[decl |-> "struct", ident |-> variant.name, base |-> interface,
                  layout |-> "", fields |-> typed(cs, "public")],
                 [decl |-> "struct", ident |-> variant.name \o "__RawArg", base |-> "",
                  layout |-> "Sequential", fields |-> typed(raw, "internal")],
                 [decl |-> "struct", ident |-> variant.name \o "__RawReturn", base |-> "",
                  layout |-> "Sequential", fields |-> typed(raw, "internal")]>>)

(* Union members laid out one after the other.                            *)
quote_union_members_sequential(schema, suffix) ==
    [i \in DOMAIN schema.variants |->
        [offset |-> i - 1,
         ty |-> schema.variants[i].name \o suffix,
         ident |-> schema.variants[i].name]]

(* The members of an overlay union: one per variant, all at offset 0.      *)
quote_union_members(schema, suffix) ==
    [i \in DOMAIN schema.variants |->
        [offset |-> 0,
         ty |-> schema.variants[i].name \o suffix,
         ident |-> schema.variants[i].name]]

RECURSIVE Flatten(_)
Flatten(seqs) == IF seqs = <<>> THEN <<>> ELSE Head(seqs) \o Flatten(Tail(seqs))

(* The declarations of a data-carrying enum: the interface, the structs of *)
(* every variant and the two overlay unions.                               *)
quote_complex_enum_decls(export, schema, registry) ==
    LET interface == "I" \o export.name
        structs == [i \in DOMAIN schema.variants |->
                      quote_variant_structs(interface, schema.variants[i], registry)]
        bad == FirstPanic(structs)
    IN IF bad # 0
       THEN structs[bad]
       ELSE Ok(<<[decl |-> "interface", ident |-> interface]>>
               \o Flatten([i \in DOMAIN structs |-> structs[i].value])
               \o <<[decl |-> "union", ident |-> export.name \o "__RawArg",
                     layout |-> "Explicit",
                     members |-> quote_union_members(schema, "__RawArg")],
                    [decl |-> "union", ident |-> export.name \o "__RawReturn",
                     layout |-> "Explicit",
                     members |-> quote_union_members(schema, "__RawReturn")]>>)

(* A declaration generator without the assertion on the binding style.    *)
quote_complex_enum_binding_unchecked(export, schema, registry) ==
    quote_complex_enum_decls(export, schema, registry)

(* assert_eq!(export.binding_style, BindingStyle::Value, ...) comes first. *)
quote_complex_enum_binding(export, schema, registry) ==
    IF export.binding_style # "Value"
    THEN Panic(<<"Right now we only support exporting complex enums by value">>)
    ELSE quote_complex_enum_decls(export, schema, registry)

(* A dispatcher that takes every enum for a simple one.                    *)
quote_enum_binding_always_simple(export, schema, registry) ==
    LET simple == quote_simple_enum_binding(export, schema)
    IN IF IsPanic(simple) THEN simple ELSE Ok(<<simple.value>>)

quote_enum_binding(export, schema, registry) ==
    IF has_data(schema)
    THEN quote_complex_enum_binding(export, schema, registry)
    ELSE LET simple == quote_simple_enum_binding(export, schema)
         IN IF IsPanic(simple) THEN simple ELSE Ok(<<simple.value>>)

-----------------------------------------------------------------------------
(* The fields of the raw struct of an exported type.                       *)

(* strukt::field_ident: the declared name, or Element<index>.              *)
field_ident(name, index) ==
    IF IsSome(name) THEN Unwrap(name) ELSE "Element" \o IndexText(index)

(* Raw struct fields emitted last field first.                             *)
raw_struct_fields_reversed(fields, registry) ==
    LET n == Len(fields)
        tys == [i \in DOMAIN fields |-> raw_type_from_schema(fields[i].schema, registry)]
        bad == FirstPanic(tys)
    IN IF bad # 0
       THEN tys[bad]
       ELSE Ok([i \in DOMAIN fields |->
                  [access |-> "internal", ty |-> tys[n + 1 - i].value,
                   ident |-> field_ident(fields[n + 1 - i].name, n - i)]])

(* raw_struct_fields: internal <raw type> <field name>; for every field,   *)
(* the raw types resolved in field order.                                  *)
raw_struct_fields(fields, registry) ==
    LET tys == [i \in DOMAIN fields |-> raw_type_from_schema(fields[i].schema, registry)]
        bad == FirstPanic(tys)
    IN IF bad # 0
       THEN tys[bad]
       ELSE Ok([i \in DOMAIN fields |->
                  [access |-> "internal", ty |-> tys[i].value,
                   ident |-> field_ident(fields[i].name, i - 1)]])

-----------------------------------------------------------------------------
(* generate/binding.rs: the raw bindings of the exports.                   *)

FnArg(name, repr) == [name |-> name, repr |-> repr]

Func(name, binding, inputs, output) ==
    [name |-> name, binding |-> binding, inputs |-> inputs, output |-> output]

Method(name, binding, receiver, inputs, output) ==
    [name |-> name, binding |-> binding, receiver |-> receiver,
     inputs |-> inputs, output |-> output]

(* The variants of Export.                                                 *)
ExportFn(func) == [variant |-> "Fn", item |-> func]
ExportMethod(method) == [variant |-> "Method", item |-> method]
ExportNamed(named) == [variant |-> "Named", item |-> named]

(* The entry points a named type is exported with.                         *)
drop_fn(export) == "__cs_bindgen_drop__" \o export.name
index_fn(export) == "__cs_bindgen_index__" \o export.name
convert_list_fn(export) == "__cs_bindgen_convert_list__" \o export.name
drop_vec_fn(export) == "__cs_bindgen_drop_vec__" \o export.name

Param(ty, ident) == [ty |-> ty, ident |-> ident]

(* quote_binding_args: <raw type> <name> for every input, in input order.  *)
quote_binding_args(inputs, registry) ==
    LET tys == [i \in DOMAIN inputs |-> raw_type_from_repr(inputs[i].repr, registry)]
        bad == FirstPanic(tys)
    IN IF bad # 0
       THEN tys[bad]
       ELSE Ok([i \in DOMAIN inputs |-> Param(tys[i].value, inputs[i].name)])

(* quote_raw_fn_binding: the DllImport declaration of an entry point.      *)
quote_raw_fn_binding(entry_point, return_ty, args, dll) ==
    [decl |-> "extern", dll |-> dll, entry_point |-> entry_point,
     calling_convention |-> "Cdecl", return_ty |-> return_ty,
     ident |-> entry_point, args |-> args]

(* The return type of a raw binding: that of the output, or void.          *)
quote_binding_return_ty(output, registry) ==
    IF IsSome(output) THEN raw_type_from_repr(Unwrap(output), registry) ELSE Ok("void")

(* Export::Fn: the arguments are resolved before the return type.          *)
quote_raw_binding_fn(export, dll, registry) ==
    LET args == quote_binding_args(export.inputs, registry)
        return_ty == quote_binding_return_ty(export.output, registry)
    IN IF IsPanic(args) THEN args
       ELSE IF IsPanic(return_ty) THEN return_ty
       ELSE Ok(<<quote_raw_fn_binding(export.binding, return_ty.value, args.value, dll)>>)

(* A method binding that takes self whether or not there is a receiver.    *)
quote_raw_binding_method_always_self(export, dll, registry) ==
    LET return_ty == quote_binding_return_ty(export.output, registry)
        args == quote_binding_args(export.inputs, registry)
    IN IF IsPanic(return_ty) THEN return_ty
       ELSE IF IsPanic(args) THEN args
       ELSE Ok(<<quote_raw_fn_binding(export.binding, return_ty.value,
                                      <<Param(quote_handle_ptr, "self")>> \o args.value,
                                      dll)>>)

(* Export::Method: the return type is resolved first, and the receiver is  *)
(* inserted in front of the arguments.                                     *)
quote_raw_binding_method(export, dll, registry) ==
    LET return_ty == quote_binding_return_ty(export.output, registry)
        args == quote_binding_args(export.inputs, registry)
    IN IF IsPanic(return_ty) THEN return_ty
       ELSE IF IsPanic(args) THEN args
       ELSE Ok(<<quote_raw_fn_binding(
                    export.binding, return_ty.value,
                    IF IsSome(export.receiver)
                    THEN <<Param(quote_handle_ptr, "self")>> \o args.value
                    ELSE args.value,
                    dll)>>)

(* class::quote_drop_fn: the binding of the destructor of a handle type.   *)
quote_drop_fn(export, dll) ==
    <<quote_raw_fn_binding(drop_fn(export), "void",
                           <<Param(quote_handle_ptr, "self")>>, dll)>>

(* generate::quote_cs_type_for_schema: the idiomatic type of a schema.     *)
quote_cs_type_for_schema(schema, registry) ==
    IF schema.kind \in {"Enum"} \cup StructKinds
    THEN IF schema.name \in DOMAIN registry
         THEN Ok(schema.name.name)
         ELSE NoExportFound(schema.name)
    ELSE quote_cs_type(schema, registry)

(* A list-from-raw function that drops the raw vec before it reads it.     *)
quote_list_from_raw_drop_first(export, ty, raw_repr) ==
    [decl |-> "fn", ident |-> "__FromRaw",
     args |-> <<Param("RawVec", "raw"), Param("out List<" \o ty \o ">", "result")>>,
     body |-> <<[stmt |-> "call", call |-> drop_vec_fn(export), with |-> <<"raw">>],
                [stmt |-> "assign", target |-> "result", on |-> "raw",
                 call |-> "ToList<" \o raw_repr \o ", " \o ty \o ">",
                 with |-> <<index_fn(export), "__FromRaw">>]>>]

(* The two list conversion functions of a value type: result is assigned   *)
(* raw.ToList<raw_repr, ty>(index_fn, __FromRaw), then drop_vec_fn(raw) is *)
(* called.                                                                 *)
quote_list_from_raw(export, ty, raw_repr) ==
    [decl |-> "fn", ident |-> "__FromRaw",
     args |-> <<Param("RawVec", "raw"), Param("out List<" \o ty \o ">", "result")>>,
     body |-> <<[stmt |-> "assign", target |-> "result", on |-> "raw",
                 call |-> "ToList<" \o raw_repr \o ", " \o ty \o ">",
                 with |-> <<index_fn(export), "__FromRaw">>],
                [stmt |-> "call", call |-> drop_vec_fn(export), with |-> <<"raw">>]>>]

quote_list_into_raw(export, ty, raw_repr) ==
    [decl |-> "fn", ident |-> "__IntoRaw",
     args |-> <<Param("List<" \o ty \o ">", "items"), Param("out RawVec", "result")>>,
     body |-> <<[stmt |-> "assign", target |-> "result",
                 call |-> "RawVec.FromList",
                 with |-> <<"items", "item => __IntoRaw(item, out " \o raw_repr \o " raw)",
                            convert_list_fn(export)>>]>>]

(* The three sequence helpers of a value type, without the list functions. *)
quote_value_bindings_helpers_only(export, dll, registry) ==
    LET raw_repr == raw_type_from_schema(export.schema, registry)
    IN IF IsPanic(raw_repr) THEN raw_repr
       ELSE Ok(<<quote_raw_fn_binding(index_fn(export), raw_repr.value,
                     <<Param("RawSlice", "slice"), Param("UIntPtr", "index")>>, dll),
                 quote_raw_fn_binding(convert_list_fn(export), "RawVec",
                     <<Param("RawSlice", "raw")>>, dll),
                 quote_raw_fn_binding(drop_vec_fn(export), "void",
                     <<Param("RawVec", "vec")>>, dll)>>)

(* BindingStyle::Value: the three sequence helpers, then the two list      *)
(* conversion functions.                                                   *)
quote_value_bindings(export, dll, registry) ==
    LET raw_repr == raw_type_from_schema(export.schema, registry)
        ty == quote_cs_type_for_schema(export.schema, registry)
    IN IF IsPanic(raw_repr) THEN raw_repr
       ELSE IF IsPanic(ty) THEN ty
       ELSE Ok(<<quote_raw_fn_binding(index_fn(export), raw_repr.value,
                     <<Param("RawSlice", "slice"), Param("UIntPtr", "index")>>, dll),
                 quote_raw_fn_binding(convert_list_fn(export), "RawVec",
                     <<Param("RawSlice", "raw")>>, dll),
                 quote_raw_fn_binding(drop_vec_fn(export), "void",
                     <<Param("RawVec", "vec")>>, dll),
                 quote_list_from_raw(export, ty.value, raw_repr.value),
                 quote_list_into_raw(export, ty.value, raw_repr.value)>>)

(* A named type arm that gives a handle type the sequence helpers too.     *)
quote_raw_binding_named_with_helpers(export, dll, registry) ==
    IF export.binding_style = "Handle"
    THEN LET helpers == quote_value_bindings(export, dll, registry)
         IN IF IsPanic(helpers) THEN helpers
            ELSE Ok(quote_drop_fn(export, dll) \o helpers.value)
    ELSE quote_value_bindings(export, dll, registry)

(* Export::Named: the destructor of a handle type, the helpers of a value  *)
(* type.                                                                   *)
quote_raw_binding_named(export, dll, registry) ==
    IF export.binding_style = "Handle"
    THEN Ok(quote_drop_fn(export, dll))
    ELSE quote_value_bindings(export, dll, registry)

quote_raw_binding(export, dll, registry) ==
    CASE export.variant = "Fn" -> quote_raw_binding_fn(export.item, dll, registry)
      [] export.variant = "Method" -> quote_raw_binding_method(export.item, dll, registry)
      [] export.variant = "Named" -> quote_raw_binding_named(export.item, dll, registry)

-----------------------------------------------------------------------------
(* generate/func.rs: the idiomatic wrapper of an exported function.        *)

(* to_mixed_case of heck over the argument names of the model.             *)
to_mixed_case(name) ==
    CASE name = "tile_id" -> "tileId"
      [] name = "draw_tile" -> "drawTile"
      [] OTHER -> name

Input(name, schema) == [name |-> name, schema |-> schema]

(* quote_args: <idiomatic type> <identifier> for every input.              *)
quote_args(inputs, registry) ==
    LET tys == [i \in DOMAIN inputs |-> quote_cs_type(inputs[i].schema, registry)]
        bad == FirstPanic(tys)
    IN IF bad # 0
       THEN tys[bad]
       ELSE Ok([i \in DOMAIN inputs |-> Param(tys[i].value, to_mixed_case(inputs[i].name))])

(* Conversion calls applied to the names as declared in the source.        *)
quote_invoke_args_declared_name(inputs) ==
    [i \in DOMAIN inputs |->
        [expr |-> "convert", fn |-> "__bindings.__IntoRaw", arg |-> inputs[i].name]]

(* quote_invoke_args: __bindings.__IntoRaw(<identifier>) for every input.  *)
quote_invoke_args(inputs) ==
    [i \in DOMAIN inputs |->
        [expr |-> "convert", fn |-> "__bindings.__IntoRaw",
         arg |-> to_mixed_case(inputs[i].name)]]

(* An invocation whose result is assigned without conversion.              *)
quote_invoke_unconverted(binding_name, invoke_args, output, ret) ==
    LET invoke == [expr |-> "invoke", fn |-> "__bindings." \o binding_name,
                   args |-> invoke_args]
    IN IF IsSome(output)
       THEN [stmt |-> "assign", target |-> ret, convert |-> "", value |-> invoke]
       ELSE [stmt |-> "expr", value |-> invoke]

(* The statement that invokes the raw binding: with an output the result   *)
(* is converted by __FromRaw and assigned to ret.                          *)
quote_invoke(binding_name, invoke_args, output, ret) ==
    LET invoke == [expr |-> "invoke", fn |-> "__bindings." \o binding_name,
                   args |-> invoke_args]
    IN IF IsSome(output)
       THEN [stmt |-> "assign", target |-> ret, convert |-> "__bindings.__FromRaw",
             value |-> invoke]
       ELSE [stmt |-> "expr", value |-> invoke]

(* One step of the fold: a String argument wraps the body built so far in  *)
(* a fixed block, any other argument leaves it as it is.                   *)
fixed_block(body, input) ==
    IF input.schema.kind = "String"
    THEN [stmt |-> "fixed", ty |-> "char*",
          ident |-> "__fixed_" \o to_mixed_case(input.name),
          pinned |-> to_mixed_case(input.name), body |-> body]
    ELSE body

(* fold_fixed_blocks: Iterator::fold over the inputs in order, from the    *)
(* invocation.                                                             *)
RECURSIVE fold_fixed_blocks(_, _)
fold_fixed_blocks(base_invoke, inputs) ==
    IF inputs = <<>>
    THEN base_invoke
    ELSE fold_fixed_blocks(fixed_block(base_invoke, Head(inputs)), Tail(inputs))

quote_wrapper_body(binding_name, receiver, inputs, output, ret) ==
    LET converted == quote_invoke_args(inputs)
        invoke_args == IF IsSome(receiver)
                       THEN <<[expr |-> "receiver", tokens |-> Unwrap(receiver)]>> \o converted
                       ELSE converted
    IN fold_fixed_blocks(quote_invoke(binding_name, invoke_args, output, ret), inputs)

quote_wrapper_fn(name, binding, receiver, inputs, output, registry) ==
    LET return_ty == IF IsSome(output)
                     THEN quote_cs_type(Unwrap(output), registry)
                     ELSE Ok("void")
        ret == "__ret"
        args == quote_args(inputs, registry)
        body == quote_wrapper_body(binding, receiver, inputs, output, ret)
    IN IF IsPanic(return_ty) THEN return_ty
       ELSE IF IsPanic(args) THEN args
       ELSE Ok([decl |-> "method", access |-> "public", static |-> ~IsSome(receiver),
                return_ty |-> return_ty.value, ident |-> to_camel_case(name),
                args |-> args.value,
                stmts |-> (IF IsSome(output)
                           THEN <<[stmt |-> "decl", ty |-> return_ty.value, ident |-> ret]>>
                           ELSE <<>>)
                          \o <<[stmt |-> "unsafe", body |-> body]>>
                          \o (IF IsSome(output)
                              THEN <<[stmt |-> "return", value |-> ret]>>
                              ELSE <<>>)])

-----------------------------------------------------------------------------
(* cs-bindgen-cli/src/main.rs: the wrapper of a function without           *)
(* arguments that returns a primitive or a string.                         *)

Primitives ==
    {"String", "Char", "I8", "I16", "I32", "I64", "U8", "U16", "U32", "U64",
     "F32", "F64", "Bool"}

(* quote_return_type of main.rs.                                           *)
quote_return_type(return_ty) ==
    IF return_ty = None THEN ""
    ELSE CASE Unwrap(return_ty) = "String" -> "string"
           [] Unwrap(return_ty) = "Bool" -> "bool"
           [] Unwrap(return_ty) \in {"Char", "U32"} -> "uint"
           [] Unwrap(return_ty) = "I8" -> "sbyte"
           [] Unwrap(return_ty) = "I16" -> "short"
           [] Unwrap(return_ty) = "I32" -> "int"
           [] Unwrap(return_ty) = "I64" -> "long"
           [] Unwrap(return_ty) = "U8" -> "byte"
           [] Unwrap(return_ty) = "U16" -> "ushort"
           [] Unwrap(return_ty) = "U64" -> "ulong"
           [] Unwrap(return_ty) = "F32" -> "float"
           [] Unwrap(return_ty) = "F64" -> "double"

(* The binding of __cs_bindgen_drop_string that main.rs declares.          *)
DropString == "DropString"

(* quote_wrapper_fn of main.rs: the statements of the wrapper.  A string   *)
(* is decoded from rawResult, then DropString(rawResult) is called, then   *)
(* the string is returned.                                                 *)
main_quote_wrapper_fn(ident, ret, raw_binding) ==
    LET invoke == [stmt |-> "let", target |-> "rawResult", call |-> raw_binding,
                   with |-> IF ret = Some("String") THEN <<"out var length">> ELSE <<>>]
        result_expr ==
            CASE ret = Some("String") ->
                    <<[stmt |-> "decl", ty |-> "string", ident |-> "result"],
                      [stmt |-> "unsafe",
                       body |-> [stmt |-> "assign", target |-> "result", on |-> "Encoding.UTF8",
                                 call |-> "GetString", with |-> <<"rawResult", "length">>]],
                      [stmt |-> "call", call |-> DropString, with |-> <<"rawResult">>],
                      [stmt |-> "return", value |-> "result"]>>
              [] ret = Some("Bool") -> <<[stmt |-> "return", value |-> "rawResult != 0"]>>
              [] OTHER -> <<[stmt |-> "return", value |-> "rawResult"]>>
    IN [decl |-> "method", access |-> "public", static |-> TRUE,
        return_ty |-> quote_return_type(ret), ident |-> to_camel_case(ident),
        args |-> <<>>,
        body |-> IF ret = None
                 THEN <<[stmt |-> "call", call |-> raw_binding, with |-> <<>>]>>
                 ELSE <<invoke>> \o result_expr]

-----------------------------------------------------------------------------
(* cs-bindgen-shared/src/bindgen_fn.rs and bindgen_impl.rs: the            *)
(* description of a function or of an impl block, built from its syntax.   *)

(* syn::Result: an error carries its message and the syntax it points at.  *)
Err(msg, span) == [kind |-> "err", value |-> <<msg>>, span |-> span]
IsErr(r) == r.kind = "err"

FirstErr(outs) ==
    LET bad == {i \in DOMAIN outs : IsErr(outs[i])}
    IN IF bad = {} THEN 0 ELSE CHOOSE i \in bad : \A j \in bad : i <= j

(* The syntax of a signature: syn::FnArg, syn::Pat, syn::ReturnType.       *)
SynReceiver(reference, mutability) ==
    [arg |-> "Receiver", reference |-> reference, mutability |-> mutability]
SynTyped(pat, ty) == [arg |-> "Typed", pat |-> pat, ty |-> ty]
PatIdent(ident) == [pat |-> "Ident", ident |-> ident]
PatWild == [pat |-> "Wild", ident |-> "_"]
Signature(asyncness, ident, inputs, output) ==
    [asyncness |-> asyncness, ident |-> ident, inputs |-> inputs, output |-> output]

(* Primitive::from_type: the primitive a type names, if it names one.      *)
Primitive_from_type(ty) ==
    CASE ty = "i32" -> Some("I32")
      [] ty = "u8" -> Some("U8")
      [] ty = "bool" -> Some("Bool")
      [] ty = "String" -> Some("String")
      [] OTHER -> None

(* ReturnType::from_syn: no value for a signature without a return type,   *)
(* the primitive the return type names, or an error.                       *)
ReturnType_from_syn(output) ==
    IF output = None THEN Ok(None)
    ELSE IF Primitive_from_type(Unwrap(output)) = None
         THEN Err("Unsupported return type", [ty |-> Unwrap(output)])
         ELSE Ok(Primitive_from_type(Unwrap(output)))

(* syn::Signature::receiver: the first input, if it is a self receiver or  *)
(* a typed argument named self.                                            *)
signature_receiver(signature) ==
    IF signature.inputs = <<>> THEN None
    ELSE LET arg == signature.inputs[1]
         IN IF arg.arg = "Receiver" \/ arg.pat = PatIdent("self")
            THEN Some(arg)
            ELSE None

(* Receiver::from_syn.                                                     *)
Receiver_from_syn(arg) ==
    IF arg.arg = "Receiver"
    THEN Ok(IF arg.reference
            THEN IF arg.mutability THEN "RefMut" ELSE "Ref"
            ELSE "Value")
    ELSE Err("Invalid receiver for #[cs_bindgen] method", arg)

FnArg_new(ident, ty) == [ident |-> ident, ty |-> ty]

(* The closure of from_signature that numbers the inputs from one.         *)
from_signature_arg_one_based(index, arg) ==
    IF arg.arg = "Receiver"
    THEN Err("Methods are not supported, only free functions", arg)
    ELSE LET ident == IF arg.pat.pat = "Ident" THEN arg.pat.ident
                      ELSE "__arg" \o IndexText(index + 1)
             ty == Primitive_from_type(arg.ty)
         IN IF ty = None
            THEN Err("Unknown argument type, only primitives are supported",
                     [ty |-> arg.ty])
            ELSE Ok(FnArg_new(ident, Unwrap(ty)))

(* The closure of from_signature over (index, arg), index from zero.       *)
from_signature_arg(index, arg) ==
    IF arg.arg = "Receiver"
    THEN Err("Methods are not supported, only free functions", arg)
    ELSE LET ident == IF arg.pat.pat = "Ident" THEN arg.pat.ident
                      ELSE "__arg" \o IndexText(index)
             ty == Primitive_from_type(arg.ty)
         IN IF ty = None
            THEN Err("Unknown argument type, only primitives are supported",
                     [ty |-> arg.ty])
            ELSE Ok(FnArg_new(ident, Unwrap(ty)))

(* BindgenFn::from_signature.                                              *)
from_signature(signature) ==
    IF signature.asyncness
    THEN Err("Async functions are not supported with #[cs_bindgen]", "async")
    ELSE LET first == signature_receiver(signature)
             recv == IF first = None THEN Ok(None)
                     ELSE LET r == Receiver_from_syn(Unwrap(first))
                          IN IF IsErr(r) THEN r ELSE Ok(Some(r.value))
             args == [i \in DOMAIN signature.inputs |->
                         from_signature_arg(i - 1, signature.inputs[i])]
             ret == ReturnType_from_syn(signature.output)
         IN IF IsErr(recv) THEN recv
            ELSE IF FirstErr(args) # 0 THEN args[FirstErr(args)]
            ELSE IF IsErr(ret) THEN ret
            ELSE Ok([ident |-> signature.ident,
                     receiver |-> recv.value,
                     args |-> [i \in DOMAIN args |-> args[i].value],
                     ret |-> ret.value])

(* The syntax of an impl block: syn::ItemImpl, syn::Path, syn::ImplItem.   *)
PathSegment(ident, arguments) == [ident |-> ident, arguments |-> arguments]
TypePath(leading_colon, segments) ==
    [ty |-> "Path", leading_colon |-> leading_colon, segments |-> segments]
TypeReference(elem) == [ty |-> "Reference", elem |-> elem]
ImplItemMethod(sig) == [item |-> "Method", sig |-> sig]
ImplItemConst(ident) == [item |-> "Const", ident |-> ident]
ItemImpl(trait_, generics, self_ty, items) ==
    [trait_ |-> trait_, generics |-> generics, self_ty |-> self_ty, items |-> items]

(* syn::Path::get_ident: the identifier of a path that is one segment      *)
(* without arguments and without a leading colon.                          *)
get_ident(path) ==
    IF ~path.leading_colon /\ Len(path.segments) = 1 /\ ~path.segments[1].arguments
    THEN Some(path.segments[1].ident)
    ELSE None

IsMethod(item) == item.item = "Method"

(* An impl description that keeps the methods that convert and leaves the  *)
(* others out.                                                             *)
from_item_partial(item) ==
    IF item.trait_ # None
    THEN Err("Trait impls are not yet supported with #[cs_bindgen]", item.trait_)
    ELSE IF item.generics # <<>>
    THEN Err("Generic impls are not not supported with #[cs_bindgen]", item.generics)
    ELSE IF item.self_ty.ty # "Path"
    THEN Err("Impls for this type of item are not supported by #[cs_bindgen]",
             item.self_ty)
    ELSE IF get_ident(item.self_ty) = None
    THEN Err("Self type not supported in impl for #[cs_bindgen]", item.self_ty)
    ELSE LET sigs == SelectSeq(item.items, IsMethod)
             fns == [i \in DOMAIN sigs |-> from_signature(sigs[i].sig)]
             good == SelectSeq(fns, IsOk)
         IN Ok([ty_ident |-> Unwrap(get_ident(item.self_ty)),
                methods |-> [i \in DOMAIN good |-> good[i].value]])

(* BindgenImpl::from_item.                                                 *)
from_item(item) ==
    IF item.trait_ # None
    THEN Err("Trait impls are not yet supported with #[cs_bindgen]", item.trait_)
    ELSE IF item.generics # <<>>
    THEN Err("Generic impls are not not supported with #[cs_bindgen]", item.generics)
    ELSE IF item.self_ty.ty # "Path"
    THEN Err("Impls for this type of item are not supported by #[cs_bindgen]",
             item.self_ty)
    ELSE IF get_ident(item.self_ty) = None
    THEN Err("Self type not supported in impl for #[cs_bindgen]", item.self_ty)
    ELSE LET sigs == SelectSeq(item.items, IsMethod)
             fns == [i \in DOMAIN sigs |-> from_signature(sigs[i].sig)]
         IN IF FirstErr(fns) # 0 THEN fns[FirstErr(fns)]
            ELSE Ok([ty_ident |-> Unwrap(get_ident(item.self_ty)),
                     methods |-> [i \in DOMAIN fns |-> fns[i].value]])

-----------------------------------------------------------------------------
(* The inputs of the model: the exported types a run can describe.         *)

Crate == "mahjong"

SuitName == TypeName("Suit", Crate)
TileName == TypeName("Tile", Crate)
PointName == TypeName("Point", Crate)
(* A type that is described but never exported.                            *)
GhostName == TypeName("Ghost", Crate)
(* A type of the same name in another module.                              *)
OtherSuitName == TypeName("Suit", "other")

VariantNames == <<"Coins", "Bamboo", "Characters", "Flower", "Season", "Wind">>
FieldNames == <<"number", "suit", "tile_id", "x">>
FieldSchemas == <<Prim("I32"), STRING_SCHEMA, Prim("U8"), Prim("Str")>>

EnumReprs == {None, Some("U8"), Some("I32")}
Discriminants == {None, Some(<<"5">>), Some(<<"1", "0">>), Some(<<")">>)}

(* Enums whose variants are all unit variants.  The repr and the explicit  *)
(* discriminants are read by different functions, so they vary one at a    *)
(* time.                                                                   *)
UnitEnumSchemas ==
    {EnumSchema(SuitName, None,
                [i \in DOMAIN ds |-> UnitVariant(VariantNames[i], ds[i])]) :
        ds \in SeqsOf(Discriminants, 1, MaxVariants)}
    \cup
    {EnumSchema(SuitName, repr,
                [i \in 1..n |-> UnitVariant(VariantNames[i], None)]) :
        repr \in EnumReprs, n \in 1..MaxVariants}

UnnamedFields(n) == [j \in 1..n |-> Field(None, FieldSchemas[j])]
NamedFields(n) == [j \in 1..n |-> Field(Some(FieldNames[j]), FieldSchemas[j])]

(* A tuple variant has MaxFields fields, a struct variant one fewer.       *)
VariantOfKind(kind, name) ==
    CASE kind = "Unit" -> UnitVariant(name, None)
      [] kind = "Tuple" -> TupleVariant(name, UnnamedFields(MaxFields))
      [] kind = "Struct" -> StructVariant(name, NamedFields(MaxFields - 1))

(* Enums with at least one variant that carries data.                      *)
DataEnumSchemas ==
    {EnumSchema(TileName, None,
                [i \in DOMAIN ks |-> VariantOfKind(ks[i], VariantNames[i])]) :
        ks \in {k \in SeqsOf({"Unit", "Tuple", "Struct"}, 1, MaxVariants) :
                   \E i \in DOMAIN k : k[i] # "Unit"}}

PointSchemas ==
    {StructSchema("Struct", PointName, NamedFields(2)),
     StructSchema("UnitStruct", PointName, <<>>)}

BindingStyles == {"Handle", "Value"}

ExportsOf(schemas) ==
    {NamedType(schema.name.name, style, schema) :
        schema \in schemas, style \in BindingStyles}

(* The registry of a set of exports with distinct type names.              *)
RegistryOf(exports) ==
    [tn \in {e.schema.name : e \in exports} |->
        CHOOSE e \in exports : e.schema.name = tn]

(* A run exports at most one enum and at most one struct.                  *)
Registries ==
    {RegistryOf(enums \cup structs) :
        enums \in {{}} \cup {{e} : e \in ExportsOf(UnitEnumSchemas \cup DataEnumSchemas)},
        structs \in {{}} \cup {{e} : e \in ExportsOf(PointSchemas)}}

Exports(registry) == {registry[tn] : tn \in DOMAIN registry}

EnumExports(registry) == {e \in Exports(registry) : e.schema.kind = "Enum"}

(* Schemas of types that may be missing from the registry.                 *)
SampleSchemas ==
    {EnumSchema(SuitName, None, <<UnitVariant("Coins", None), UnitVariant("Bamboo", None)>>),
     EnumSchema(TileName, None, <<TupleVariant("Coins", UnnamedFields(1))>>),
     EnumSchema(GhostName, None, <<UnitVariant("Coins", None)>>),
     EnumSchema(OtherSuitName, None, <<UnitVariant("Coins", None)>>),
     StructSchema("Struct", PointName, NamedFields(2)),
     StructSchema("UnitStruct", GhostName, <<>>),
     StructSchema("NewtypeStruct", GhostName, UnnamedFields(1)),
     StructSchema("TupleStruct", GhostName, UnnamedFields(2))}

ElemSchemas == {Prim("U8"), STRING_SCHEMA, [kind |-> "Option", elem |-> Prim("U8")]}

SeqNames ==
    {TypeName("Vec", "alloc::vec"), TypeName("VecDeque", "alloc::collections"),
     TypeName("Vec", "other")}

(* The fields a raw struct can be asked for: unnamed and named, of a       *)
(* primitive, of a named type that may be missing, of an unsupported kind. *)
FieldPool ==
    {Field(None, Prim("I32")),
     Field(Some("suit"),
           EnumSchema(SuitName, None,
                      <<UnitVariant("Coins", None), UnitVariant("Bamboo", None)>>)),
     Field(Some("x"), [kind |-> "Option", elem |-> Prim("U8")])}

FieldLists == SeqsOf(FieldPool, 0, MaxFields)

(* The schemas a resolver call can be given under a registry.              *)
SchemaArgs(registry) ==
    {Prim(k) : k \in PrimitiveKinds \cup {"Str", "I128", "U128"}}
    \cup {STRING_SCHEMA, [kind |-> "String", name |-> TypeName("Text", Crate)]}
    \cup {e.schema : e \in Exports(registry)}
    \cup {s \in SampleSchemas : s.name \notin DOMAIN registry}
    \cup {[kind |-> k, elem |-> e] : k \in {"Array", "Slice", "Option"}, e \in ElemSchemas}
    \cup {[kind |-> "Seq", name |-> n, elem |-> e] : n \in SeqNames, e \in ElemSchemas}
    \cup {[kind |-> "Tuple", elems |-> <<Prim("U8"), Prim("I32")>>],
          [kind |-> "Map", key |-> Prim("U8"), value |-> STRING_SCHEMA]}

(* The reprs a resolver call can be given.                                 *)
ReprArgs ==
    {Prim(k) : k \in PrimitiveKinds \cup {"String", "Str"}}
    \cup {[kind |-> "Named", name |-> tn] :
            tn \in {SuitName, TileName, PointName, GhostName, OtherSuitName}}
    \cup {[kind |-> k, inner |-> Prim("I32")] :
            k \in {"Box", "Ref", "Vec", "Slice", "Array", "Option", "Result"}}

-----------------------------------------------------------------------------
(* The state machine: a registry is built, then one generator is called.   *)

NoCall == [op |-> "none"]
NoResult == [kind |-> "none", value |-> ""]

(* The generators allocate nothing on the native heap.                     *)
NoMemory == heap = <<>> /\ native = {} /\ foreign = {}

Init ==
    /\ types \in Registries
    /\ pc = "idle"
    /\ call = NoCall
    /\ result = NoResult
    /\ NoMemory

Return(op, arg, outcome) ==
    /\ pc' = "done"
    /\ call' = [op |-> op, arg |-> arg]
    /\ result' = outcome
    /\ UNCHANGED <<types, heap, native, foreign>>

RawTypeFromRepr ==
    /\ pc = "idle"
    /\ \E repr \in ReprArgs :
          Return("raw_type_from_repr", repr, raw_type_from_repr(repr, types))

RawTypeFromSchema ==
    /\ pc = "idle"
    /\ \E schema \in SchemaArgs(types) :
          Return("raw_type_from_schema", schema, raw_type_from_schema(schema, types))

QuoteEnumBinding ==
    /\ pc = "idle"
    /\ \E export \in EnumExports(types) :
          Return("quote_enum_binding", export,
                 quote_enum_binding(export, export.schema, types))

QuoteSimpleEnumBinding ==
    /\ pc = "idle"
    /\ \E export \in EnumExports(types) :
          Return("quote_simple_enum_binding", export,
                 quote_simple_enum_binding(export, export.schema))

QuoteRawTypeReference ==
    /\ pc = "idle"
    /\ \E export \in EnumExports(types) :
          Return("quote_raw_type_reference", export,
                 Ok(quote_raw_type_reference(export, export.schema)))

QuoteTypeReference ==
    /\ pc = "idle"
    /\ \E export \in EnumExports(types) :
          Return("quote_type_reference", export,
                 Ok(quote_type_reference(export, export.schema)))

QuoteDiscriminantType ==
    /\ pc = "idle"
    /\ \E export \in EnumExports(types) :
          Return("quote_discriminant_type", export,
                 Ok(quote_discriminant_type(export.schema)))

RawStructFields ==
    /\ pc = "idle"
    /\ \E fields \in FieldLists :
          Return("raw_struct_fields", fields, raw_struct_fields(fields, types))

Next ==
    \/ RawTypeFromRepr
    \/ RawTypeFromSchema
    \/ QuoteEnumBinding
    \/ QuoteSimpleEnumBinding
    \/ QuoteRawTypeReference
    \/ QuoteTypeReference
    \/ QuoteDiscriminantType
    \/ RawStructFields

Spec == Init /\ [][Next]_vars

-----------------------------------------------------------------------------
(* The exports of a second run: functions, methods and named types over a  *)
(* few registries.                                                         *)

DllName == "mahjong"

ArgNames == <<"tile_id", "suit", "x", "y">>

ArgReprs ==
    {Prim("I32"), Prim("Str"), [kind |-> "Named", name |-> SuitName],
     [kind |-> "Option", inner |-> Prim("I32")]}

InputLists ==
    {[i \in DOMAIN rs |-> FnArg(ArgNames[i], rs[i])] : rs \in SeqsOf(ArgReprs, 0, MaxInputs)}

Outputs ==
    {None, Some(Prim("I32")), Some(Prim("String")),
     Some([kind |-> "Named", name |-> SuitName]),
     Some([kind |-> "Result", inner |-> Prim("I32")])}

Receivers == {None, Some("Move"), Some("Ref"), Some("RefMut")}

FnExports ==
    {ExportFn(Func("draw_tile", "__cs_bindgen_generated__draw_tile", inputs, output)) :
        inputs \in InputLists, output \in Outputs}

MethodExports ==
    {ExportMethod(Method("draw_tile", "__cs_bindgen_generated__Tile__draw_tile",
                         receiver, inputs, output)) :
        receiver \in Receivers, inputs \in InputLists, output \in Outputs}

NamedExports(registry) == {ExportNamed(e) : e \in Exports(registry)}

(* A struct whose field is a sequence of values of a named type.           *)
HandSchema ==
    StructSchema("Struct", TypeName("Hand", Crate),
                 <<Field(Some("tiles"),
                         [kind |-> "Seq", name |-> TypeName("Vec", "alloc::vec"),
                          elem |-> EnumSchema(TileName, None,
                                              <<TupleVariant("Coins", UnnamedFields(1))>>)])>>)

ExportRegistries ==
    {RegistryOf(enums \cup structs) :
        enums \in {{}} \cup
            {{e} : e \in ExportsOf(
                {EnumSchema(SuitName, None,
                            <<UnitVariant("Coins", None), UnitVariant("Bamboo", None)>>),
                 EnumSchema(SuitName, Some("U8"), <<UnitVariant("Coins", None)>>),
                 EnumSchema(TileName, None, <<TupleVariant("Coins", UnnamedFields(1))>>)})},
        structs \in {{}} \cup
            {{e} : e \in ExportsOf({StructSchema("Struct", PointName, NamedFields(2)),
                                    HandSchema})}}

InitExport ==
    /\ types \in ExportRegistries
    /\ pc = "idle"
    /\ call = NoCall
    /\ result = NoResult
    /\ NoMemory

QuoteRawBindingFn ==
    /\ pc = "idle"
    /\ \E export \in FnExports :
          Return("quote_raw_binding", export, quote_raw_binding(export, DllName, types))

QuoteRawBindingMethod ==
    /\ pc = "idle"
    /\ \E export \in MethodExports :
          Return("quote_raw_binding", export, quote_raw_binding(export, DllName, types))

QuoteRawBindingNamed ==
    /\ pc = "idle"
    /\ \E export \in NamedExports(types) :
          Return("quote_raw_binding", export, quote_raw_binding(export, DllName, types))

(* The inputs of a wrapper: text, a borrowed view of text, a slice and a   *)
(* number.                                                                 *)
InputSchemas ==
    {Prim("I32"), STRING_SCHEMA, Prim("Str"), [kind |-> "Slice", elem |-> Prim("U8")]}

WrapperInputs ==
    {[i \in DOMAIN ss |-> Input(ArgNames[i], ss[i])] : ss \in SeqsOf(InputSchemas, 0, MaxInputs)}

WrapperOutputs == {None, Some(Prim("I32")), Some(STRING_SCHEMA)}

WrapperReceivers == {None, Some("_handle")}

QuoteWrapperFn ==
    /\ pc = "idle"
    /\ \E receiver \in WrapperReceivers, inputs \in WrapperInputs, output \in WrapperOutputs :
          LET binding == "__cs_bindgen_generated__draw_tile"
          IN Return("quote_wrapper_fn",
                    [name |-> "draw_tile", binding |-> binding, receiver |-> receiver,
                     inputs |-> inputs, output |-> output],
                    quote_wrapper_fn("draw_tile", binding, receiver, inputs, output, types))

NextExport ==
    \/ QuoteRawBindingFn
    \/ QuoteRawBindingMethod
    \/ QuoteRawBindingNamed
    \/ QuoteWrapperFn

SpecExport == InitExport /\ [][NextExport]_vars

-----------------------------------------------------------------------------
(* cs-bindgen/src/lib.rs and cs-bindgen-macro/src/handle.rs: the values    *)
(* that cross the boundary at run time.  The native heap maps an address   *)
(* to an allocation; native holds the values owned by the Rust side and    *)
(* foreign the raw values handed to the other side, each with the value it *)
(* was made from.                                                          *)

Addrs == 1..MaxAllocs

Free == [live |-> FALSE, capacity |-> 0, content |-> <<>>]

Allocation(capacity, content) == [live |-> TRUE, capacity |-> capacity, content |-> content]

String(ptr, len, capacity) == [kind |-> "String", ptr |-> ptr, len |-> len, capacity |-> capacity]

Object(value) == [kind |-> "Object", value |-> value]

RawString(ptr, len, capacity) ==
    [kind |-> "RawString", ptr |-> ptr, len |-> len, capacity |-> capacity]

(* usize as u64 keeps the value, and so does u64 as usize of a value that  *)
(* was a usize.                                                            *)
as_u64(n) == n
as_usize(n) == n

(* A raw string whose capacity is the length of the string.                *)
from_string_shrunk(string) ==
    RawString(string.ptr, as_u64(string.len), as_u64(string.len))

(* RawString::from_string: the parts of the string; mem::forget leaves the *)
(* buffer allocated.                                                       *)
from_string(string) ==
    RawString(string.ptr, as_u64(string.len), as_u64(string.capacity))

(* RawString::into_string: String::from_raw_parts.                         *)
into_string(raw) == String(raw.ptr, as_usize(raw.len), as_usize(raw.capacity))

(* Abi::into_abi of a handle type: Box::into_raw(Box::new(self)), the box  *)
(* allocated at a free address.                                            *)
into_abi(object, addr) ==
    [abi |-> [kind |-> "Handle", ptr |-> addr],
     heap |-> [heap EXCEPT ![addr] = Allocation(1, <<object.value>>)]]

(* Abi::from_abi of a handle type: *Box::from_raw(abi) moves the value out *)
(* of the box and frees the box.                                           *)
from_abi(abi) ==
    [value |-> Object(heap[abi.ptr].content[1]),
     heap |-> [heap EXCEPT ![abi.ptr] = Free]]

(* The exported drop function of a handle type: its body is empty and its  *)
(* parameter is a raw pointer, which has no destructor, so the heap is     *)
(* left as it is.                                                          *)
drop_handle(abi) == heap

(* The contents of a string of the model: a prefix of one text.            *)
Text == <<"t", "i", "l", "e", "s">>
Contents == {SubSeq(Text, 1, n) : n \in 0..MaxCapacity}
ObjectValues == {"Coins", "Bamboo"}

InitAbi ==
    /\ types = <<>>
    /\ pc = "idle"
    /\ call = NoCall
    /\ result = NoResult
    /\ heap = [a \in Addrs |-> Free]
    /\ native = {}
    /\ foreign = {}

Ran(op, arg, outcome) ==
    /\ pc' = "done"
    /\ call' = [op |-> op, arg |-> arg]
    /\ result' = outcome
    /\ UNCHANGED types

(* Rust code builds a String in a fresh buffer.                            *)
NewString ==
    \E addr \in Addrs, content \in Contents,
       capacity \in 0..MaxCapacity :
        /\ ~heap[addr].live
        /\ Len(content) <= capacity
        /\ heap' = [heap EXCEPT ![addr] = Allocation(capacity, content)]
        /\ native' = native \cup {String(addr, Len(content), capacity)}
        /\ Ran("new_string", content, Ok(String(addr, Len(content), capacity)))
        /\ UNCHANGED foreign

(* Rust code builds a value of a handle type.                              *)
NewObject ==
    \E value \in ObjectValues :
        /\ Object(value) \notin native
        /\ native' = native \cup {Object(value)}
        /\ Ran("new_object", value, Ok(Object(value)))
        /\ UNCHANGED <<heap, foreign>>

FromString ==
    \E string \in {v \in native : v.kind = "String"} :
        LET raw == from_string(string)
        IN /\ native' = native \ {string}
           /\ foreign' = foreign \cup
                  {[raw |-> raw, origin |-> string, content |-> heap[string.ptr].content]}
           /\ Ran("from_string", string, Ok(raw))
           /\ UNCHANGED heap

IntoString ==
    \E held \in {f \in foreign : f.raw.kind = "RawString"} :
        LET string == into_string(held.raw)
        IN /\ foreign' = foreign \ {held}
           /\ native' = native \cup {string}
           /\ Ran("into_string", held, Ok(string))
           /\ UNCHANGED heap

IntoAbi ==
    \E object \in {v \in native : v.kind = "Object"}, addr \in Addrs :
        /\ ~heap[addr].live
        /\ LET boxed == into_abi(object, addr)
           IN /\ heap' = boxed.heap
              /\ native' = native \ {object}
              /\ foreign' = foreign \cup
                     {[raw |-> boxed.abi, origin |-> object, content |-> <<object.value>>]}
              /\ Ran("into_abi", object, Ok(boxed.abi))

FromAbi ==
    \E held \in {f \in foreign : f.raw.kind = "Handle"} :
        LET unboxed == from_abi(held.raw)
        IN /\ heap' = unboxed.heap
           /\ foreign' = foreign \ {held}
           /\ native' = native \cup {unboxed.value}
           /\ Ran("from_abi", held, Ok(unboxed.value))

(* The other side calls the exported drop function of the handle type and  *)
(* forgets the handle.                                                     *)
DropHandle ==
    \E held \in {f \in foreign : f.raw.kind = "Handle"} :
        /\ heap' = drop_handle(held.raw)
        /\ foreign' = foreign \ {held}
        /\ Ran("drop_handle", held, Ok(held.raw))
        /\ UNCHANGED native

NextAbi ==
    \/ NewString
    \/ NewObject
    \/ FromString
    \/ IntoString
    \/ IntoAbi
    \/ FromAbi
    \/ DropHandle

SpecAbi == InitAbi /\ [][NextAbi]_vars

-----------------------------------------------------------------------------
(* The generated code at run time: the statements of a generated function  *)
(* are executed one at a time over the native heap.  foreign holds the raw *)
(* buffers bound to variables of the running function, result the trace of *)
(* what the statements did to them.                                        *)

RawBindingOf(ident) == "__" \o to_camel_case(ident)

(* The release bindings the generated code declares.                       *)
ReleaseBindings(registry) ==
    {DropString} \cup {drop_vec_fn(e.item) : e \in NamedExports(registry)}

(* The generated list-from-raw functions of the value types of a registry. *)
ListFromRawFns(registry) ==
    UNION {{[export |-> e.item, decl |-> d] :
               d \in {x \in Range(quote_raw_binding(e, DllName, registry).value) :
                         x.decl = "fn" /\ x.ident = "__FromRaw"}} :
           e \in {x \in NamedExports(registry) :
                     /\ x.item.binding_style = "Value"
                     /\ IsOk(quote_raw_binding(x, DllName, registry))}}

ReturnTypes == {None} \cup {Some(p) : p \in Primitives}

Event(kind, stmt, buffer) ==
    [event |-> kind, by |-> stmt.call, with |-> stmt.with,
     ptr |-> buffer.raw.ptr, live |-> heap[buffer.raw.ptr].live,
     matching |-> stmt.call = buffer.release]

NoTrace == [kind |-> "trace", value |-> <<>>]

(* The statement the running function is at; an unsafe block runs the      *)
(* statement it holds.                                                     *)
Current ==
    LET s == call.program[call.at]
    IN IF s.stmt = "unsafe" THEN s.body ELSE s

Running == pc = "run" /\ call.at <= Len(call.program)

(* The buffers a statement names.                                          *)
BuffersOf(names) == {b \in foreign : b.var \in names}

Advance(events) ==
    /\ pc' = "run"
    /\ call' = [call EXCEPT !.at = call.at + 1]
    /\ result' = [result EXCEPT !.value = result.value \o events]
    /\ UNCHANGED types

InitRun ==
    /\ types \in ExportRegistries
    /\ pc = "idle"
    /\ call = NoCall
    /\ result = NoResult
    /\ heap = [a \in Addrs |-> Free]
    /\ native = {}
    /\ foreign = {}

(* A caller passes a raw vec it owns to the list-from-raw function of a    *)
(* value type.                                                             *)
CallListFromRaw ==
    /\ pc = "idle"
    /\ \E fn \in ListFromRawFns(types), addr \in Addrs, content \in Contents,
          capacity \in 0..MaxCapacity :
          /\ Len(content) <= capacity
          /\ heap' = [heap EXCEPT ![addr] = Allocation(capacity, content)]
          /\ foreign' = {[var |-> fn.decl.args[1].ident,
                          raw |-> RawString(addr, Len(content), capacity),
                          release |-> drop_vec_fn(fn.export)]}
          /\ pc' = "run"
          /\ call' = [op |-> "run", fn |-> fn.decl.ident, ret |-> None,
                      program |-> fn.decl.body, at |-> 1]
          /\ result' = NoTrace
          /\ UNCHANGED <<types, native>>

(* A caller calls the wrapper of an exported function without arguments.   *)
CallWrapper ==
    /\ pc = "idle"
    /\ \E ret \in ReturnTypes :
          LET ident == "generate_tileset_json"
              fn == main_quote_wrapper_fn(ident, ret, RawBindingOf(ident))
          IN /\ pc' = "run"
             /\ call' = [op |-> "run", fn |-> fn.ident, ret |-> ret,
                         program |-> fn.body, at |-> 1]
             /\ result' = NoTrace
             /\ UNCHANGED <<types, heap, native, foreign>>

(* var rawResult = binding(..): the native function returns; a string is   *)
(* returned as a buffer the caller now owns.                               *)
StepLet ==
    /\ Running
    /\ Current.stmt = "let"
    /\ IF call.ret = Some("String")
       THEN \E addr \in Addrs, content \in Contents :
               /\ ~heap[addr].live
               /\ heap' = [heap EXCEPT ![addr] = Allocation(Len(content), content)]
               /\ foreign' = foreign \cup
                      {[var |-> Current.target,
                        raw |-> RawString(addr, Len(content), Len(content)),
                        release |-> DropString]}
       ELSE UNCHANGED <<heap, foreign>>
    /\ Advance(<<>>)
    /\ UNCHANGED native

StepDecl ==
    /\ Running
    /\ Current.stmt = "decl"
    /\ Advance(<<>>)
    /\ UNCHANGED <<heap, native, foreign>>

(* target = on.call(with): every buffer the expression names is read.      *)
StepAssign ==
    /\ Running
    /\ Current.stmt = "assign"
    /\ \E read \in SeqsOf(BuffersOf({Current.on} \cup Range(Current.with)), 0, 1) :
          /\ Len(read) = Cardinality(BuffersOf({Current.on} \cup Range(Current.with)))
          /\ Advance([i \in DOMAIN read |-> Event("read", Current, read[i])])
    /\ UNCHANGED <<heap, native, foreign>>

(* binding(buffer) of a release binding: the native side rebuilds the      *)
(* owner of the buffer (RawString::into_string) and drops it.              *)
StepRelease ==
    /\ Running
    /\ Current.stmt = "call"
    /\ Current.call \in ReleaseBindings(types)
    /\ \E buffer \in BuffersOf(Range(Current.with)) :
          LET owner == into_string(buffer.raw)
          IN /\ heap' = [heap EXCEPT ![owner.ptr] = Free]
             /\ Advance(<<Event("release", Current, buffer)>>)
    /\ UNCHANGED <<native, foreign>>

(* binding(): a native function that returns nothing.                      *)
StepInvoke ==
    /\ Running
    /\ Current.stmt = "call"
    /\ Current.call \notin ReleaseBindings(types)
    /\ Advance(<<>>)
    /\ UNCHANGED <<heap, native, foreign>>

StepReturn ==
    /\ Running
    /\ Current.stmt = "return"
    /\ pc' = "done"
    /\ UNCHANGED <<types, call, result, heap, native, foreign>>

(* A function without a return statement returns after its last statement. *)
StepEnd ==
    /\ pc = "run"
    /\ call.at > Len(call.program)
    /\ pc' = "done"
    /\ UNCHANGED <<types, call, result, heap, native, foreign>>

NextRun ==
    \/ CallListFromRaw
    \/ CallWrapper
    \/ StepLet
    \/ StepDecl
    \/ StepAssign
    \/ StepRelease
    \/ StepInvoke
    \/ StepReturn
    \/ StepEnd

SpecRun == InitRun /\ [][NextRun]_vars

-----------------------------------------------------------------------------
(* The macro reads the signature of a function or an impl block.           *)

FnNames == <<"draw_tile", "number", "suit">>

(* Types an argument or a return value is declared with: three primitives  *)
(* and a type of the crate.                                                *)
ArgTypes == {"i32", "String", "bool", "Tile"}

TypedArgs ==
    {SynTyped(pat, ty) : pat \in {PatIdent("tile_id"), PatWild}, ty \in ArgTypes}

(* self, mut self, &self, &mut self, self: Box<Self> and self: i32, which  *)
(* the grammar allows as the first input only.                             *)
SelfArgs ==
    {SynReceiver(reference, mutability) : reference, mutability \in BOOLEAN}
        \cup {SynTyped(PatIdent("self"), ty) : ty \in {"Box<Self>", "i32"}}

SignatureInputs ==
    {inputs \in SeqsOf(TypedArgs \cup SelfArgs, 0, MaxInputs) :
        \A i \in DOMAIN inputs : inputs[i] \in SelfArgs => i = 1}

Signatures ==
    {Signature(asyncness, FnNames[1], inputs, output) :
        asyncness \in BOOLEAN, inputs \in SignatureInputs,
        output \in {None} \cup {Some(ty) : ty \in {"i32", "Tile"}}}

(* The methods of the impl blocks of the model: one of each outcome.       *)
MethodSignatures ==
    {Signature(FALSE, FnNames[1], <<>>, None),
     Signature(FALSE, FnNames[2], <<SynTyped(PatWild, "i32")>>, Some("i32")),
     Signature(FALSE, FnNames[3], <<SynReceiver(TRUE, FALSE)>>, None),
     Signature(FALSE, FnNames[2], <<SynTyped(PatIdent("tile_id"), "Tile")>>, None),
     Signature(TRUE, FnNames[3], <<>>, None)}

SelfTypes ==
    {TypePath(FALSE, <<PathSegment("Tile", FALSE)>>),
     TypePath(FALSE, <<PathSegment("crate", FALSE), PathSegment("Tile", FALSE)>>),
     TypePath(FALSE, <<PathSegment("Vec", TRUE)>>),
     TypeReference("Tile")}

ItemImpls ==
    {ItemImpl(trait_, generics, self_ty, items) :
        trait_ \in {None, Some("Display")},
        generics \in {<<>>, <<"T">>},
        self_ty \in SelfTypes,
        items \in SeqsOf({ImplItemMethod(sig) : sig \in MethodSignatures}
                             \cup {ImplItemConst("COUNT")}, 0, MaxItems)}

InitParse ==
    /\ types = <<>>
    /\ pc = "idle"
    /\ call = NoCall
    /\ result = NoResult
    /\ NoMemory

FromSignature ==
    /\ pc = "idle"
    /\ \E signature \in Signatures :
          Return("from_signature", signature, from_signature(signature))

FromItem ==
    /\ pc = "idle"
    /\ \E item \in ItemImpls :
          Return("from_item", item, from_item(item))

NextParse ==
    \/ FromSignature
    \/ FromItem

SpecParse == InitParse /\ [][NextParse]_vars

-----------------------------------------------------------------------------
(* src/lib.rs: the tiles of the game and generate_tileset, one action per  *)
(* push of a tile; the loop counters of the function are fields of call.   *)

(* EnumIter yields the variants in declaration order.                      *)
Suit_iter == <<"Coins", "Bamboo", "Characters">>
Flower_iter_short == <<"PlumBlossom", "Orchid", "Chrysanthemum">>
Flower_iter == <<"PlumBlossom", "Orchid", "Chrysanthemum", "Bamboo">>
Season_iter == <<"Spring", "Summer", "Autumn", "Winter">>
Wind_iter == <<"East", "South", "West", "North">>
Dragon_iter == <<"Red", "Green", "White">>

SimpleTile(suit, number) == [tile |-> "Simple", kind |-> "Suit", of |-> suit, number |-> number]
HonorTile(kind, of) == [tile |-> "Honor", kind |-> kind, of |-> of, number |-> 0]
BonusTile(kind, of) == [tile |-> "Bonus", kind |-> kind, of |-> of, number |-> 0]

(* Vec::with_capacity(144), the numbers 1..=9 and the copies 0..4.         *)
TilesetCapacity == 144
MaxNumber == 9
Copies == 4

(* Vec::push: a full vector grows before the element is written.           *)
push(vec, tile) ==
    [live |-> TRUE,
     capacity |-> IF Len(vec.content) = vec.capacity
                  THEN IF vec.capacity = 0 THEN 4 ELSE 2 * vec.capacity
                  ELSE vec.capacity,
     content |-> Append(vec.content, tile)]

InLoop(loop) == pc = "run" /\ call.op = "generate_tileset" /\ call.loop = loop

Loop(loop, index, number, copy) ==
    [op |-> "generate_tileset", loop |-> loop, index |-> index,
     number |-> number, copy |-> copy]

(* The position after one more copy of the item at index of an iterator:   *)
(* the next copy, the next item, or the loop that follows.                 *)
AfterCopy(iter, copies, following) ==
    IF call.copy + 1 < copies
    THEN Loop(call.loop, call.index, call.number, call.copy + 1)
    ELSE IF call.index < Len(iter)
    THEN Loop(call.loop, call.index + 1, 1, 0)
    ELSE Loop(following, 1, 1, 0)

Pushed(tile, position) ==
    /\ heap' = <<push(heap[1], tile)>>
    /\ call' = position
    /\ UNCHANGED <<types, pc, result, native, foreign>>

InitTiles ==
    /\ types = <<>>
    /\ pc = "idle"
    /\ call = NoCall
    /\ result = NoResult
    /\ heap = <<Free>>
    /\ native = {}
    /\ foreign = {}

(* generate_tileset is called; the tiles of an earlier call are with the   *)
(* caller.                                                                 *)
CallGenerateTileset ==
    /\ pc \in {"idle", "done"}
    /\ heap' = <<Allocation(TilesetCapacity, <<>>)>>
    /\ native' = IF pc = "done" THEN native \cup {result.value} ELSE native
    /\ pc' = "run"
    /\ call' = Loop("simple", 1, 1, 0)
    /\ result' = NoResult
    /\ UNCHANGED <<types, foreign>>

PushSimple ==
    /\ InLoop("simple")
    /\ Pushed(SimpleTile(Suit_iter[call.index], call.number),
              IF call.copy + 1 < Copies
              THEN Loop("simple", call.index, call.number, call.copy + 1)
              ELSE IF call.number < MaxNumber
              THEN Loop("simple", call.index, call.number + 1, 0)
              ELSE IF call.index < Len(Suit_iter)
              THEN Loop("simple", call.index + 1, 1, 0)
              ELSE Loop("dragon", 1, 1, 0))

PushDragon ==
    /\ InLoop("dragon")
    /\ Pushed(HonorTile("Dragon", Dragon_iter[call.index]),
              AfterCopy(Dragon_iter, Copies, "wind"))

PushWind ==
    /\ InLoop("wind")
    /\ Pushed(HonorTile("Wind", Wind_iter[call.index]),
              AfterCopy(Wind_iter, Copies, "flower"))

PushFlower ==
    /\ InLoop("flower")
    /\ Pushed(BonusTile("Flower", Flower_iter[call.index]),
              AfterCopy(Flower_iter, 1, "season"))

PushSeason ==
    /\ InLoop("season")
    /\ Pushed(BonusTile("Season", Season_iter[call.index]),
              AfterCopy(Season_iter, 1, "end"))

ReturnTileset ==
    /\ InLoop("end")
    /\ pc' = "done"
    /\ result' = Ok(heap[1].content)
    /\ UNCHANGED <<types, call, heap, native, foreign>>

NextTiles ==
    \/ CallGenerateTileset
    \/ PushSimple
    \/ PushDragon
    \/ PushWind
    \/ PushFlower
    \/ PushSeason
    \/ ReturnTileset

SpecTiles == InitTiles /\ [][NextTiles]_vars

-----------------------------------------------------------------------------
(* A generation pass over the exported enums of a crate: the declarations  *)
(* of every exported enum are emitted into one output, in any order.       *)

UnitEnum(name, variants) ==
    EnumSchema(TypeName(name, Crate), None,
               [i \in DOMAIN variants |-> UnitVariant(variants[i], None)])

FlowerSchema == UnitEnum("Flower", Flower_iter)
SeasonSchema == UnitEnum("Season", Season_iter)
WindSchema == UnitEnum("Wind", Wind_iter)
DragonSchema == UnitEnum("Dragon", Dragon_iter)

(* enum BonusTile { Flower(Flower), Season(Season) } and                   *)
(* enum HonorTile { Wind(Wind), Dragon(Dragon) } of src/lib.rs.            *)
BonusTileSchema ==
    EnumSchema(TypeName("BonusTile", Crate), None,
               <<TupleVariant("Flower", <<Field(None, FlowerSchema)>>),
                 TupleVariant("Season", <<Field(None, SeasonSchema)>>)>>)

HonorTileSchema ==
    EnumSchema(TypeName("HonorTile", Crate), None,
               <<TupleVariant("Wind", <<Field(None, WindSchema)>>),
                 TupleVariant("Dragon", <<Field(None, DragonSchema)>>)>>)

CrateSchemas ==
    {UnitEnum("Suit", Suit_iter), FlowerSchema, SeasonSchema, WindSchema, DragonSchema,
     BonusTileSchema, HonorTileSchema}

(* The registries of up to MaxTypes exported enums with distinct names.    *)
CrateRegistries ==
    {RegistryOf(exports) :
        exports \in {es \in SUBSET ExportsOf(CrateSchemas) :
                        /\ Cardinality(es) \in 1..MaxTypes
                        /\ \A a, b \in es : a.name = b.name => a = b}}

InitCrate ==
    /\ types \in CrateRegistries
    /\ pc = "idle"
    /\ call = NoCall
    /\ result = NoResult
    /\ NoMemory

(* The pass starts with an empty output.                                   *)
StartPass ==
    /\ pc = "idle"
    /\ pc' = "run"
    /\ call' = [op |-> "generate", emitted |-> {}]
    /\ result' = Ok(<<>>)
    /\ UNCHANGED <<types, heap, native, foreign>>

(* The declarations of one more exported enum are added to the output; a   *)
(* panic of the generator ends the pass.                                   *)
EmitEnumBinding ==
    /\ pc = "run"
    /\ call.op = "generate"
    /\ \E export \in EnumExports(types) \ call.emitted :
          LET out == quote_enum_binding(export, export.schema, types)
          IN /\ call' = [call EXCEPT !.emitted = call.emitted \cup {export}]
             /\ IF IsPanic(out)
                THEN pc' = "done" /\ result' = out
                ELSE pc' = "run" /\ result' = Ok(result.value \o out.value)
    /\ UNCHANGED <<types, heap, native, foreign>>

FinishPass ==
    /\ pc = "run"
    /\ call.op = "generate"
    /\ call.emitted = EnumExports(types)
    /\ pc' = "done"
    /\ UNCHANGED <<types, call, result, heap, native, foreign>>

NextCrate ==
    \/ StartPass
    \/ EmitEnumBinding
    \/ FinishPass

SpecCrate == InitCrate /\ [][NextCrate]_vars

-----------------------------------------------------------------------------
(* Properties of the raw type resolver.                                    *)

Resolvers == {"raw_type_from_repr", "raw_type_from_schema"}

Resolved(op) == pc = "done" /\ call.op = op

(* The raw type the table of section 4.1 gives every primitive kind.       *)
PrimitiveTable ==
    [Unit |-> "byte", Bool |-> "byte", Char |-> "uint",
     I8 |-> "sbyte", I16 |-> "short", I32 |-> "int", I64 |-> "long",
     U8 |-> "byte", U16 |-> "ushort", U32 |-> "uint", U64 |-> "ulong",
     ISize |-> "IntPtr", USize |-> "UIntPtr", F32 |-> "float", F64 |-> "double"]

(* C1: for every primitive kind both resolvers return the raw type of the  *)
(* table (unit and bool a byte, char a uint, the integers their same-width *)
(* C# integer, isize/usize IntPtr/UIntPtr, f32/f64 float/double), whatever *)
(* the registry holds, and the two resolvers agree on every kind.          *)
C1_PrimitiveMapping ==
    /\ (pc = "done" /\ call.op \in Resolvers /\ call.arg.kind \in PrimitiveKinds)
          => result = Ok(PrimitiveTable[call.arg.kind])
    /\ \A k \in PrimitiveKinds :
          raw_type_from_repr(Prim(k), types) = raw_type_from_schema(Prim(k), types)

C1_Witness ==
    /\ Resolved("raw_type_from_repr")
    /\ call.arg = Prim("Char")
    /\ result = Ok("uint")
    /\ SuitName \in DOMAIN types /\ PointName \in DOMAIN types

IsVecSeq(schema) ==
    /\ schema.kind = "Seq"
    /\ schema.name = TypeName("Vec", "alloc::vec")

(* C2: the schema resolver maps the built-in String schema and a Seq named *)
(* Vec in alloc::vec to RawVec, and Str and every slice to RawSlice, for   *)
(* every element type of the sequence or slice.                            *)
C2_TextAndSequences ==
    Resolved("raw_type_from_schema") =>
        /\ (call.arg = STRING_SCHEMA \/ IsVecSeq(call.arg)) => result = Ok("RawVec")
        /\ call.arg.kind \in {"Str", "Slice"} => result = Ok("RawSlice")

C2_Witness ==
    /\ Resolved("raw_type_from_schema")
    /\ IsVecSeq(call.arg)
    /\ call.arg.elem.kind = "Option"
    /\ result = Ok("RawVec")

(* The raw shape of a Value style type, from its own schema.               *)
ValueShape(schema) ==
    IF schema.kind = "Enum" /\ \A i \in DOMAIN schema.variants : schema.variants[i].kind = "Unit"
    THEN CASE schema.repr = None -> "IntPtr"
           [] schema.repr = Some("U8") -> "byte"
           [] schema.repr = Some("I32") -> "int"
    ELSE "global::__" \o schema.name.name \o "__Raw"

(* The resolver was given a reference to the registered type tn.           *)
ResolvedNamed(tn) ==
    /\ tn \in DOMAIN types
    /\ \/ Resolved("raw_type_from_repr") /\ call.arg = [kind |-> "Named", name |-> tn]
       \/ Resolved("raw_type_from_schema") /\ call.arg = types[tn].schema

(* C3: a named type is looked up in the registry; a Handle type resolves   *)
(* to the one handle pointer type, whatever its schema, and a Value type   *)
(* to the raw shape of its own schema: the named raw record of a struct or *)
(* data-carrying enum, the discriminant type of a unit-only enum.          *)
C3_NamedTypeLookup ==
    \A tn \in DOMAIN types :
        ResolvedNamed(tn) =>
            /\ types[tn].binding_style = "Handle" => result = Ok("void*")
            /\ types[tn].binding_style = "Value" => result = Ok(ValueShape(types[tn].schema))

C3_Witness ==
    /\ ResolvedNamed(PointName)
    /\ Resolved("raw_type_from_repr")
    /\ types[PointName].binding_style = "Handle"
    /\ types[PointName].schema.kind = "Struct"
    /\ result = Ok(quote_handle_ptr)

(* The call names a type that has no registry entry.                       *)
MissingType(arg) ==
    /\ arg.kind \in {"Named", "Enum"} \cup StructKinds
    /\ arg.name \notin DOMAIN types

(* C4: a reference to a named type with no registry entry fails with an    *)
(* error that names the missing type; the failure is returned to the       *)
(* caller as an error value, the process does not panic, and no fragment   *)
(* is returned.                                                            *)
C4_MissingEntryIsError ==
    (pc = "done" /\ call.op \in Resolvers /\ MissingType(call.arg)) =>
        /\ result.kind = "err"
        /\ call.arg.name.name \in Range(result.value)

(* The unsupported kind a schema is, "" when it is supported.              *)
UnsupportedKind(schema) ==
    CASE schema.kind \in {"Array", "Option", "Tuple", "Map"} -> schema.kind
      [] schema.kind = "Seq" /\ ~IsVecSeq(schema) -> "Seq"
      [] OTHER -> ""

(* C5: resolving an array, option, tuple, map or unknown sequence always   *)
(* fails, and the error tells these kinds apart: two schemas of different  *)
(* unsupported kinds never fail with the same error.                       *)
C5_UnsupportedKindIdentified ==
    (Resolved("raw_type_from_schema") /\ UnsupportedKind(call.arg) # "") =>
        /\ IsPanic(result)
        /\ \A other \in SchemaArgs(types) :
              UnsupportedKind(other) \notin {"", UnsupportedKind(call.arg)}
                 => raw_type_from_schema(other, types) # result

-----------------------------------------------------------------------------
(* Properties of the enum code generation.                                 *)

(* The enum export a generator of enumeration.rs was called with.          *)
Generated(op) == Resolved(op) /\ call.arg.schema.kind = "Enum"

UnitOnly(schema) == \A i \in DOMAIN schema.variants : schema.variants[i].kind = "Unit"

(* The declaration of the simple enum in the result of either entry.       *)
SimpleDecl == IF call.op = "quote_enum_binding" THEN result.value[1] ELSE result.value

DigitValue(c) == CHOOSE n \in 0..9 : IndexText(n) = c

RECURSIVE DecimalValue(_)
DecimalValue(digits) ==
    IF digits = <<>>
    THEN 0
    ELSE 10 * DecimalValue(SubSeq(digits, 1, Len(digits) - 1)) + DigitValue(digits[Len(digits)])

(* The value C# gives the i-th member of an enum declaration: that of its  *)
(* initializer, else one more than the member before, else 0.              *)
RECURSIVE MemberValue(_, _)
MemberValue(members, i) ==
    IF IsSome(members[i].discriminant)
    THEN DecimalValue(Unwrap(members[i].discriminant).digits)
    ELSE IF i = 1 THEN 0 ELSE MemberValue(members, i - 1) + 1

(* The value the discriminant law gives the i-th variant of a schema.      *)
RECURSIVE VariantValue(_, _)
VariantValue(variants, i) ==
    IF IsSome(variants[i].discriminant)
    THEN DecimalValue(Unwrap(variants[i].discriminant))
    ELSE IF i = 1 THEN 0 ELSE VariantValue(variants, i - 1) + 1

ExplicitDiscriminants(schema) ==
    [i \in DOMAIN schema.variants |-> schema.variants[i].discriminant]

(* Every explicit discriminant of the schema is a decimal literal.         *)
LiteralsParse(schema) ==
    \A i \in DOMAIN schema.variants :
        LET d == schema.variants[i].discriminant
        IN IsSome(d) => (Unwrap(d) # <<>> /\ \A j \in DOMAIN Unwrap(d) : Unwrap(d)[j] \in Digits)

(* C6: the declaration generated for a unit-only enum lists the variants   *)
(* in declaration order, each with the value of its explicit literal or,   *)
(* without one, the value before plus one, from 0: [A, B = 5, C] get       *)
(* 0, 5, 6 and three variants without a literal get 0, 1, 2.               *)
C6_DiscriminantLaw ==
    \A op \in {"quote_enum_binding", "quote_simple_enum_binding"} :
        (Generated(op) /\ UnitOnly(call.arg.schema) /\ LiteralsParse(call.arg.schema)) =>
            LET variants == call.arg.schema.variants
                members == SimpleDecl.variants
                values == [i \in DOMAIN members |-> MemberValue(members, i)]
            IN /\ IsOk(result)
               /\ SimpleDecl.decl = "enum"
               /\ Len(members) = Len(variants)
               /\ \A i \in DOMAIN variants :
                     /\ members[i].ident = variants[i].name
                     /\ values[i] = VariantValue(variants, i)
               /\ ExplicitDiscriminants(call.arg.schema) = <<None, Some(<<"5">>), None>>
                     => values = <<0, 5, 6>>
               /\ ExplicitDiscriminants(call.arg.schema) = <<None, None, None>>
                     => values = <<0, 1, 2>>

C6_Witness ==
    /\ Generated("quote_enum_binding")
    /\ ExplicitDiscriminants(call.arg.schema) = <<None, Some(<<"5">>), None>>
    /\ IsOk(result)
    /\ [i \in 1..3 |-> MemberValue(result.value[1].variants, i)] = <<0, 5, 6>>

(* The storage type of a unit-only enum, by its declared repr.             *)
StorageType(schema) ==
    CASE schema.repr = None -> "IntPtr"
      [] schema.repr = Some("U8") -> "byte"
      [] schema.repr = Some("I32") -> "int"

(* C7: the raw discriminant type of a unit-only enum is the primitive type *)
(* of its declared repr, IntPtr when it declares none, and it is the same  *)
(* from quote_discriminant_type, from quote_raw_type_reference and from    *)
(* raw_type_from_schema for a Value style enum.                            *)
C7_DiscriminantType ==
    /\ (Generated("quote_discriminant_type") /\ UnitOnly(call.arg.schema))
          => result = Ok(StorageType(call.arg.schema))
    /\ (Generated("quote_raw_type_reference") /\ UnitOnly(call.arg.schema)
          /\ call.arg.binding_style = "Value")
          => result = Ok(StorageType(call.arg.schema))
    /\ (Resolved("raw_type_from_schema") /\ call.arg.kind = "Enum" /\ UnitOnly(call.arg)
          /\ call.arg.name \in DOMAIN types
          /\ types[call.arg.name].binding_style = "Value")
          => result = Ok(StorageType(call.arg))

C7_Witness ==
    /\ Resolved("raw_type_from_schema")
    /\ call.arg.kind = "Enum"
    /\ UnitOnly(call.arg)
    /\ Len(call.arg.variants) = 3
    /\ call.arg.repr = None
    /\ call.arg.name \in DOMAIN types
    /\ types[call.arg.name].binding_style = "Value"
    /\ result = Ok("IntPtr")

(* A generation path met the data-carrying enum exported with style Handle *)
(* through the given function.                                             *)
MetHandleDataEnum(op) ==
    /\ Resolved(op)
    /\ TileName \in DOMAIN types
    /\ types[TileName].binding_style = "Handle"
    /\ call.arg = IF op = "raw_type_from_schema" THEN types[TileName].schema ELSE types[TileName]

(* C8 as claimed: a data-carrying enum with style Handle is rejected by    *)
(* every path that meets it, the declaration generator, the raw type       *)
(* reference and the schema resolver; none returns a type or declaration.  *)
C8_HandleDataEnumRejectedEverywhere ==
    \A op \in {"quote_enum_binding", "quote_raw_type_reference", "raw_type_from_schema"} :
        MetHandleDataEnum(op) => IsPanic(result)

(* C8: a data-carrying enum with style Handle is rejected by the           *)
(* declaration generator, which panics on its assertion before it emits a  *)
(* fragment; the raw type reference and the schema resolver return the     *)
(* handle pointer type for it.                                             *)
C8_HandleDataEnumDeclRejected ==
    /\ MetHandleDataEnum("quote_enum_binding") =>
          result = Panic(<<"Right now we only support exporting complex enums by value">>)
    /\ MetHandleDataEnum("quote_raw_type_reference") => result = Ok("void*")
    /\ MetHandleDataEnum("raw_type_from_schema") => result = Ok("void*")

C8_Witness ==
    /\ MetHandleDataEnum("quote_enum_binding")
    /\ Len(call.arg.schema.variants) = 2
    /\ IsPanic(result)

(* C9: the discriminant-only strategy fails on an enum with a variant that *)
(* is not a unit variant, and quote_enum_binding takes the data-carrying   *)
(* strategy exactly when some variant carries data and the                 *)
(* discriminant-only strategy exactly when none does.                      *)
C9_StrategySelection ==
    /\ (Generated("quote_simple_enum_binding") /\ ~UnitOnly(call.arg.schema))
          => IsPanic(result)
    /\ Generated("quote_enum_binding") =>
          /\ ~UnitOnly(call.arg.schema) =>
                /\ result = quote_complex_enum_binding(call.arg, call.arg.schema, types)
                /\ IsOk(result) => result.value[1].decl = "interface"
          /\ UnitOnly(call.arg.schema) =>
                /\ IsOk(result) =>
                      result = Ok(<<quote_simple_enum_binding(call.arg, call.arg.schema).value>>)
                /\ IsPanic(result) =>
                      result = quote_simple_enum_binding(call.arg, call.arg.schema)
                /\ IsOk(result) => result.value[1].decl = "enum"

C9_Witness ==
    /\ Generated("quote_simple_enum_binding")
    /\ call.arg.schema.variants[1].kind = "Unit"
    /\ Len(call.arg.schema.variants) = 2
    /\ call.arg.schema.variants[2].kind = "Tuple"
    /\ result = Panic(<<"Simple enum can only have unit variants">>)

(* The declarations of the result that are of the given sort.              *)
DeclsOf(decls, sort) ==
    LET IsSort(d) ==
            CASE sort = "interface" -> d.decl = "interface"
              [] sort = "union" -> d.decl = "union"
              [] sort = "variant" -> d.decl = "struct" /\ d.base # ""
              [] sort = "raw" -> d.decl = "struct" /\ d.layout = "Sequential"
    IN SelectSeq(decls, IsSort)

(* An overlay union has one member per variant, in declaration order, at   *)
(* offset 0, typed as the raw record of the variant for the direction.     *)
IsOverlayUnion(union, decls, schema, name, suffix) ==
    /\ union.ident = name \o suffix
    /\ union.layout = "Explicit"
    /\ Len(union.members) = Len(schema.variants)
    /\ \A i \in DOMAIN schema.variants :
          /\ union.members[i].offset = 0
          /\ union.members[i].ident = schema.variants[i].name
          /\ union.members[i].ty = schema.variants[i].name \o suffix
          /\ \E d \in Range(DeclsOf(decls, "raw")) : d.ident = union.members[i].ty

(* C10: for a Value style data-carrying enum with N variants the generator *)
(* emits one marker interface, exactly N variant types implementing it in  *)
(* declaration order, and an argument and a return overlay union, each of  *)
(* N members in declaration order, every member at offset 0 and typed as   *)
(* the raw record of its variant for the direction of the union.           *)
C10_OverlayUnions ==
    (Generated("quote_enum_binding") /\ ~UnitOnly(call.arg.schema)
        /\ call.arg.binding_style = "Value") =>
        /\ IsOk(result)
        /\ LET decls == result.value
               schema == call.arg.schema
               interfaces == DeclsOf(decls, "interface")
               variants == DeclsOf(decls, "variant")
               unions == DeclsOf(decls, "union")
           IN /\ Len(interfaces) = 1
              /\ interfaces[1].ident = "I" \o call.arg.name
              /\ Len(variants) = Len(schema.variants)
              /\ \A i \in DOMAIN schema.variants :
                    /\ variants[i].ident = schema.variants[i].name
                    /\ variants[i].base = interfaces[1].ident
              /\ Len(unions) = 2
              /\ IsOverlayUnion(unions[1], decls, schema, call.arg.name, "__RawArg")
              /\ IsOverlayUnion(unions[2], decls, schema, call.arg.name, "__RawReturn")

C10_Witness ==
    /\ Generated("quote_enum_binding")
    /\ call.arg.binding_style = "Value"
    /\ Len(call.arg.schema.variants) = 3
    /\ call.arg.schema.variants[1].kind = "Tuple"
    /\ call.arg.schema.variants[2].kind = "Unit"
    /\ call.arg.schema.variants[3].kind = "Struct"
    /\ IsOk(result)
    /\ Len(DeclsOf(result.value, "union")) = 2
    /\ Len(DeclsOf(result.value, "union")[1].members) = 3

-----------------------------------------------------------------------------
(* The fields of the three declarations of every variant.                  *)

ComplexDecls == Generated("quote_enum_binding") /\ ~UnitOnly(call.arg.schema)
                    /\ call.arg.binding_style = "Value" /\ IsOk(result)

(* The idiomatic and the raw type of the field schemas of the model.       *)
IdiomaticTypeOf(schema) ==
    CASE schema.kind = "I32" -> "int"
      [] schema.kind = "U8" -> "byte"
      [] schema.kind \in {"String", "Str"} -> "string"

RawTypeOf(schema) ==
    CASE schema.kind = "I32" -> "int"
      [] schema.kind = "U8" -> "byte"
      [] schema.kind = "String" -> "RawVec"
      [] schema.kind = "Str" -> "RawSlice"

PositionalName(index) == "Element" \o <<"0", "1", "2", "3">>[index + 1]

UpperCamelCase(name) ==
    CASE name = "number" -> "Number"
      [] name = "suit" -> "Suit"
      [] name = "tile_id" -> "TileId"
      [] name = "x" -> "X"

(* The three declarations of every variant have one field per field of the *)
(* variant, in declaration order, named by NameOf and typed by the schema. *)
VariantFieldsNamedBy(NameOf(_, _)) ==
    LET schema == call.arg.schema
        variants == DeclsOf(result.value, "variant")
        raws == DeclsOf(result.value, "raw")
    IN \A i \in DOMAIN schema.variants :
          LET fields == IF schema.variants[i].kind = "Unit"
                        THEN <<>> ELSE schema.variants[i].fields
              idiomatic == variants[i]
              arg == raws[2 * i - 1]
              ret == raws[2 * i]
          IN /\ arg.ident = schema.variants[i].name \o "__RawArg"
             /\ ret.ident = schema.variants[i].name \o "__RawReturn"
             /\ Len(idiomatic.fields) = Len(fields)
             /\ Len(arg.fields) = Len(fields)
             /\ Len(ret.fields) = Len(fields)
             /\ \A j \in DOMAIN fields :
                   /\ idiomatic.fields[j].ident = NameOf(fields[j], j - 1)
                   /\ arg.fields[j].ident = NameOf(fields[j], j - 1)
                   /\ ret.fields[j].ident = NameOf(fields[j], j - 1)
                   /\ idiomatic.fields[j].ty = IdiomaticTypeOf(fields[j].schema)
                   /\ arg.fields[j].ty = RawTypeOf(fields[j].schema)
                   /\ ret.fields[j].ty = RawTypeOf(fields[j].schema)

DeclaredName(field, index) ==
    IF field.name # None THEN field.name[1] ELSE PositionalName(index)

CamelCaseName(field, index) ==
    IF field.name # None THEN UpperCamelCase(field.name[1]) ELSE PositionalName(index)

(* C11 as stated: for every variant of a data-carrying enum the idiomatic  *)
(* variant type, the argument raw record and the return raw record have    *)
(* one field per variant field in declaration order, all three named by    *)
(* the declared name of a named field and Element<index> (from 0) of an    *)
(* unnamed one, the idiomatic field typed idiomatically, the raw fields    *)
(* with the raw representation.                                            *)
C11_FieldsUseDeclaredName == ComplexDecls => VariantFieldsNamedBy(DeclaredName)

(* C11 amended: as above, but a named field is named by the upper camel    *)
(* case form of its declared name (number becomes Number) in all three     *)
(* declarations.                                                           *)
C11_FieldsUseCamelCaseName == ComplexDecls => VariantFieldsNamedBy(CamelCaseName)

C11_Witness ==
    /\ ComplexDecls
    /\ Len(call.arg.schema.variants) = 2
    /\ call.arg.schema.variants[1].kind = "Struct"
    /\ call.arg.schema.variants[2].kind = "Tuple"
    /\ DeclsOf(result.value, "variant")[1].fields[1].ident = "Number"
    /\ DeclsOf(result.value, "raw")[3].fields[2].ident = "Element1"
    /\ DeclsOf(result.value, "raw")[4].fields[2].ty = "RawVec"

-----------------------------------------------------------------------------
(* The fields of a raw struct.                                             *)

FieldsResolve(fields) ==
    \A i \in DOMAIN fields : IsOk(raw_type_from_schema(fields[i].schema, types))

(* C12: raw_struct_fields emits exactly one raw field per schema field, in *)
(* declaration order; the i-th emitted field has the raw type of the i-th  *)
(* schema field and is named by the declared name of that field or, when   *)
(* it is unnamed, by its position (Element0 for the first); no field is    *)
(* dropped, duplicated or reordered, and an empty list yields no fields.   *)
(* Fields are emitted exactly when the raw type of every field resolves.   *)
C12_RawStructFields ==
    Resolved("raw_struct_fields") =>
        LET fields == call.arg
        IN /\ IsOk(result) <=> FieldsResolve(fields)
           /\ fields = <<>> => result = Ok(<<>>)
           /\ IsOk(result) =>
                 /\ Len(result.value) = Len(fields)
                 /\ \A i \in DOMAIN fields :
                       /\ result.value[i].ty =
                              raw_type_from_schema(fields[i].schema, types).value
                       /\ result.value[i].ident =
                              IF fields[i].name # None
                              THEN fields[i].name[1]
                              ELSE PositionalName(i - 1)

C12_Witness ==
    /\ Resolved("raw_struct_fields")
    /\ Len(call.arg) = 2
    /\ call.arg[1].name = Some("suit")
    /\ call.arg[2].name = None
    /\ IsOk(result)
    /\ result.value[1] = [access |-> "internal", ty |-> "void*", ident |-> "suit"]
    /\ result.value[2] = [access |-> "internal", ty |-> "int", ident |-> "Element1"]

-----------------------------------------------------------------------------
(* Malformed discriminant literals.                                        *)

RECURSIVE TextOf(_)
TextOf(chars) == IF chars = <<>> THEN "" ELSE Head(chars) \o TextOf(Tail(chars))

IsLiteral(text) == text # <<>> /\ \A j \in DOMAIN text : text[j] \in Digits

(* The explicit discriminant texts of a schema that are not literals.      *)
OffendingTexts(schema) ==
    {schema.variants[i].discriminant[1] :
        i \in {j \in DOMAIN schema.variants :
                  /\ schema.variants[j].discriminant # None
                  /\ ~IsLiteral(schema.variants[j].discriminant[1])}}

(* C20 as stated: when an explicit discriminant text of a unit variant is  *)
(* not a valid literal, generation of the enum fails with an error that    *)
(* contains the offending text and no declaration is emitted; when every   *)
(* text parses, each literal is re-emitted unchanged and a variant without *)
(* an explicit discriminant gets no literal.                               *)
C20_MalformedDiscriminantReported ==
    (pc = "done" /\ call.op \in {"quote_enum_binding", "quote_simple_enum_binding"}
        /\ UnitOnly(call.arg.schema)) =>
        LET schema == call.arg.schema
        IN IF OffendingTexts(schema) # {}
           THEN /\ IsPanic(result)
                /\ \E text \in OffendingTexts(schema) :
                      \E k \in DOMAIN result.value : result.value[k] = TextOf(text)
           ELSE /\ IsOk(result)
                /\ \A i \in DOMAIN schema.variants :
                      LET d == schema.variants[i].discriminant
                          emitted == SimpleDecl.variants[i].discriminant
                      IN IF d = None
                         THEN emitted = None
                         ELSE emitted # None /\ emitted[1].digits = d[1]

-----------------------------------------------------------------------------
(* The raw bindings of functions and methods.                              *)

Bound(variant) ==
    pc = "done" /\ call.op = "quote_raw_binding" /\ call.arg.variant = variant

(* The raw type of a repr of the model under the registry.                 *)
RawTypeOfRepr(repr) ==
    CASE repr.kind = "I32" -> "int"
      [] repr.kind = "Str" -> "RawSlice"
      [] repr.kind = "String" -> "RawVec"
      [] repr.kind = "Named" ->
            IF types[repr.name].binding_style = "Handle"
            THEN "void*"
            ELSE IF types[repr.name].schema.repr = None THEN "IntPtr" ELSE "byte"

ReprResolves(repr) ==
    /\ repr.kind \notin {"Option", "Result"}
    /\ repr.kind = "Named" => repr.name \in DOMAIN types

ExportResolves(export) ==
    /\ \A i \in DOMAIN export.inputs : ReprResolves(export.inputs[i].repr)
    /\ export.output # None => ReprResolves(export.output[1])

HasReceiver(export) == call.arg.variant = "Method" /\ export.receiver # None

(* C13: the raw declaration of a Fn or Method export binds to the entry    *)
(* point of the export; its parameters are one per input, in input order,  *)
(* each named after the input and typed with the raw type of the input,    *)
(* preceded by exactly one handle typed receiver parameter when and only   *)
(* when the export is a method with a receiver (Move, Ref or RefMut); its  *)
(* return type is the raw type of the output, or void without an output.   *)
(* A declaration is emitted exactly when every input and the output        *)
(* resolve.                                                                *)
C13_FunctionBinding ==
    (Bound("Fn") \/ Bound("Method")) =>
        LET export == call.arg.item
            shift == IF HasReceiver(export) THEN 1 ELSE 0
        IN /\ IsOk(result) <=> ExportResolves(export)
           /\ IsOk(result) =>
                 /\ Len(result.value) = 1
                 /\ LET decl == result.value[1]
                    IN /\ decl.decl = "extern"
                       /\ decl.entry_point = export.binding
                       /\ decl.dll = DllName
                       /\ Len(decl.args) = Len(export.inputs) + shift
                       /\ HasReceiver(export) => decl.args[1] = [ty |-> "void*", ident |-> "self"]
                       /\ \A i \in DOMAIN export.inputs :
                             /\ decl.args[i + shift].ident = export.inputs[i].name
                             /\ decl.args[i + shift].ty = RawTypeOfRepr(export.inputs[i].repr)
                       /\ decl.return_ty =
                             IF export.output = None
                             THEN "void"
                             ELSE RawTypeOfRepr(export.output[1])

C13_Witness ==
    /\ Bound("Method")
    /\ call.arg.item.receiver = Some("RefMut")
    /\ Len(call.arg.item.inputs) = 2
    /\ call.arg.item.output = None
    /\ IsOk(result)
    /\ result.value[1].args =
          <<[ty |-> "void*", ident |-> "self"], [ty |-> "RawSlice", ident |-> "tile_id"],
            [ty |-> "byte", ident |-> "suit"]>>
    /\ result.value[1].return_ty = "void"

-----------------------------------------------------------------------------
(* The raw bindings of named types.                                        *)

ExternDecls(decls) == SelectSeq(decls, LAMBDA d : d.decl = "extern")
FnDecls(decls) == SelectSeq(decls, LAMBDA d : d.decl = "fn")

(* C14: for a named type of Handle style quote_raw_binding emits exactly   *)
(* one declaration, the binding of the destructor, whose only parameter is *)
(* the handle pointer and which returns nothing; it emits no sequence      *)
(* helper and no list conversion function.                                 *)
C14_HandleDestructorOnly ==
    (Bound("Named") /\ call.arg.item.binding_style = "Handle") =>
        /\ IsOk(result)
        /\ Len(result.value) = 1
        /\ result.value[1].decl = "extern"
        /\ result.value[1].args = <<[ty |-> "void*", ident |-> "self"]>>
        /\ result.value[1].return_ty = "void"
        /\ FnDecls(result.value) = <<>>
        /\ \A i \in DOMAIN result.value :
              \A j \in DOMAIN result.value[i].args :
                  result.value[i].args[j].ty \notin {"RawSlice", "RawVec"}

C14_Witness ==
    /\ Bound("Named")
    /\ call.arg.item.binding_style = "Handle"
    /\ call.arg.item.name = "Tile"
    /\ result = Ok(<<[decl |-> "extern", dll |-> "mahjong",
                      entry_point |-> "__cs_bindgen_drop__Tile",
                      calling_convention |-> "Cdecl", return_ty |-> "void",
                      ident |-> "__cs_bindgen_drop__Tile",
                      args |-> <<[ty |-> "void*", ident |-> "self"]>>]>>)

(* The raw representation of the named types of the model.                 *)
RawReprOfNamed(export) ==
    CASE export.schema.kind = "Struct" -> "global::__" \o export.name \o "__Raw"
      [] export.schema.kind = "Enum" /\ export.name = "Tile" -> "global::__Tile__Raw"
      [] export.schema.kind = "Enum" /\ export.name = "Suit" ->
            IF export.schema.repr = None THEN "IntPtr" ELSE "byte"

(* The schema has a field that is a sequence of values of a named type.    *)
HasNestedSequence(schema) ==
    /\ schema.kind = "Struct"
    /\ \E i \in DOMAIN schema.fields :
          /\ schema.fields[i].schema.kind = "Seq"
          /\ schema.fields[i].schema.elem.kind = "Enum"

(* C15: for a named type of Value style, and so for one whose schema has   *)
(* sequences of values of other types, quote_raw_binding emits exactly     *)
(* three helper declarations, each bound to an entry point of its own of   *)
(* the export: an indexed accessor from a slice and an index to the raw    *)
(* representation of the type, a converter from a slice to an owned raw    *)
(* sequence, and a destructor of an owned raw sequence that returns        *)
(* nothing; and one list-from-raw and one list-into-raw function.          *)
C15_ValueSequenceHelpers ==
    (Bound("Named") /\ call.arg.item.binding_style = "Value") =>
        /\ IsOk(result)
        /\ LET export == call.arg.item
               helpers == ExternDecls(result.value)
               lists == FnDecls(result.value)
           IN /\ Len(result.value) = 5
              /\ Len(helpers) = 3
              /\ \A i \in 1..3 : \A j \in 1..3 :
                    i # j => helpers[i].entry_point # helpers[j].entry_point
              /\ helpers[1].entry_point = index_fn(export)
              /\ helpers[1].args = <<[ty |-> "RawSlice", ident |-> "slice"],
                                     [ty |-> "UIntPtr", ident |-> "index"]>>
              /\ helpers[1].return_ty = RawReprOfNamed(export)
              /\ helpers[2].entry_point = convert_list_fn(export)
              /\ helpers[2].args = <<[ty |-> "RawSlice", ident |-> "raw"]>>
              /\ helpers[2].return_ty = "RawVec"
              /\ helpers[3].entry_point = drop_vec_fn(export)
              /\ helpers[3].args = <<[ty |-> "RawVec", ident |-> "vec"]>>
              /\ helpers[3].return_ty = "void"
              /\ Len(lists) = 2
              /\ lists[1].ident = "__FromRaw"
              /\ lists[1].args[1].ty = "RawVec"
              /\ lists[2].ident = "__IntoRaw"
              /\ lists[2].args[2].ty = "out RawVec"

C15_Witness ==
    /\ Bound("Named")
    /\ call.arg.item.binding_style = "Value"
    /\ HasNestedSequence(call.arg.item.schema)
    /\ IsOk(result)
    /\ Len(result.value) = 5
    /\ result.value[1].entry_point = "__cs_bindgen_index__Hand"
    /\ result.value[1].return_ty = "global::__Hand__Raw"
    /\ result.value[4].ident = "__FromRaw"

-----------------------------------------------------------------------------
(* The wrapper of an exported function.                                    *)

Wrapped == pc = "done" /\ call.op = "quote_wrapper_fn" /\ IsOk(result)

(* The body of the unsafe block of the wrapper.                            *)
UnsafeBody ==
    LET stmts == result.value.stmts
    IN stmts[CHOOSE i \in DOMAIN stmts : stmts[i].stmt = "unsafe"].body

(* The identifiers pinned by the fixed scopes around a statement, the      *)
(* outermost first, and the statement inside all of them.                  *)
RECURSIVE Scopes(_)
Scopes(body) == IF body.stmt = "fixed" THEN <<body.pinned>> \o Scopes(body.body) ELSE <<>>

RECURSIVE Core(_)
Core(body) == IF body.stmt = "fixed" THEN Core(body.body) ELSE body

(* C16: the argument list the wrapper passes to the raw binding is the     *)
(* receiver expression first when there is a receiver, then one conversion *)
(* call per declared argument, in declaration order, every one of them the *)
(* one conversion operation __IntoRaw applied to the identifier the        *)
(* wrapper declares for that argument; none is skipped or repeated.        *)
C16_InvokeArguments ==
    Wrapped =>
        LET inputs == call.arg.inputs
            declared == result.value.args
            passed == Core(UnsafeBody).value.args
            shift == IF call.arg.receiver # None THEN 1 ELSE 0
        IN /\ Len(declared) = Len(inputs)
           /\ Len(passed) = Len(inputs) + shift
           /\ call.arg.receiver # None =>
                 passed[1] = [expr |-> "receiver", tokens |-> call.arg.receiver[1]]
           /\ \A i \in DOMAIN inputs :
                 /\ passed[i + shift].expr = "convert"
                 /\ passed[i + shift].fn = "__bindings.__IntoRaw"
                 /\ passed[i + shift].arg = declared[i].ident

C16_Witness ==
    /\ Wrapped
    /\ call.arg.receiver = Some("_handle")
    /\ Len(call.arg.inputs) = 2
    /\ result.value.args[1].ident = "tileId"
    /\ Core(UnsafeBody).value.args =
          <<[expr |-> "receiver", tokens |-> "_handle"],
            [expr |-> "convert", fn |-> "__bindings.__IntoRaw", arg |-> "tileId"],
            [expr |-> "convert", fn |-> "__bindings.__IntoRaw", arg |-> "suit"]>>

(* The identifiers the wrapper declares for the arguments whose schema is  *)
(* of one of the kinds, in declaration order.                              *)
ArgumentsOfKind(kinds) ==
    LET inputs == call.arg.inputs
        picked == SelectSeq([i \in DOMAIN inputs |-> i],
                            LAMBDA i : inputs[i].schema.kind \in kinds)
    IN [k \in DOMAIN picked |-> result.value.args[picked[k]].ident]

(* C17 as stated: the wrapper body has exactly one fixed scope for every   *)
(* argument whose schema is borrowed text or a borrowed slice, and none    *)
(* for any other argument; the scopes nest around the raw call with that   *)
(* of the first such argument outermost and that of the last innermost.    *)
C17_PinningScopes ==
    Wrapped => Scopes(UnsafeBody) = ArgumentsOfKind({"Str", "Slice"})

RECURSIVE Invocations(_)
Invocations(body) ==
    CASE body.stmt = "fixed" -> Invocations(body.body)
      [] body.stmt = "unsafe" -> Invocations(body.body)
      [] body.stmt \in {"assign", "expr"} -> IF body.value.expr = "invoke" THEN 1 ELSE 0
      [] OTHER -> 0

RECURSIVE SumSeq(_)
SumSeq(ns) == IF ns = <<>> THEN 0 ELSE Head(ns) + SumSeq(Tail(ns))

(* C18: the wrapper invokes the raw binding exactly once, inside every     *)
(* fixed scope.  With an output the raw result is converted by __FromRaw   *)
(* and assigned to the result variable, which is declared before the       *)
(* unsafe block that holds every fixed scope and returned after it; with   *)
(* no output the wrapper returns void, declares no result variable,        *)
(* converts nothing and has no return statement.                           *)
C18_InvokeAndReturn ==
    Wrapped =>
        LET stmts == result.value.stmts
            core == Core(UnsafeBody)
        IN /\ SumSeq([i \in DOMAIN stmts |-> Invocations(stmts[i])]) = 1
           /\ core.stmt \in {"assign", "expr"}
           /\ core.value.expr = "invoke"
           /\ core.value.fn = "__bindings." \o call.arg.binding
           /\ IF call.arg.output # None
              THEN /\ result.value.return_ty # "void"
                   /\ Len(stmts) = 3
                   /\ stmts[1] = [stmt |-> "decl", ty |-> result.value.return_ty,
                                  ident |-> "__ret"]
                   /\ stmts[2].stmt = "unsafe"
                   /\ stmts[3] = [stmt |-> "return", value |-> "__ret"]
                   /\ core.stmt = "assign"
                   /\ core.target = "__ret"
                   /\ core.convert = "__bindings.__FromRaw"
              ELSE /\ result.value.return_ty = "void"
                   /\ Len(stmts) = 1
                   /\ stmts[1].stmt = "unsafe"
                   /\ core.stmt = "expr"

C18_Witness ==
    /\ Wrapped
    /\ call.arg.output = Some(STRING_SCHEMA)
    /\ Len(Scopes(UnsafeBody)) = 2
    /\ result.value.return_ty = "string"
    /\ Len(result.value.stmts) = 3
    /\ Core(UnsafeBody).stmt = "assign"

-----------------------------------------------------------------------------
(* Values that cross the boundary and come back.                           *)

(* C19: a value converted to its raw representation and back is equal to   *)
(* the original: the string into_string makes of the raw string that       *)
(* from_string made has the pointer, the length and the capacity of the    *)
(* original string and its buffer still holds the original contents; the   *)
(* value from_abi makes of the handle that into_abi made is the original   *)
(* value.                                                                  *)
C19_RoundTrip ==
    /\ (pc = "done" /\ call.op = "into_string") =>
          /\ result.value.ptr = call.arg.origin.ptr
          /\ result.value.len = call.arg.origin.len
          /\ result.value.capacity = call.arg.origin.capacity
          /\ result.value = call.arg.origin
          /\ heap[result.value.ptr].live
          /\ heap[result.value.ptr].content = call.arg.content
          /\ heap[result.value.ptr].capacity = result.value.capacity
    /\ (pc = "done" /\ call.op = "from_abi") =>
          /\ result.value = call.arg.origin
          /\ result.value \in native

C19_Witness ==
    /\ pc = "done"
    /\ call.op = "into_string"
    /\ call.arg.raw.kind = "RawString"
    /\ result.value.len = 1
    /\ result.value.capacity = 2
    /\ heap[result.value.ptr].content = <<"t">>
    /\ Object("Coins") \in native
    /\ \E a \in Addrs : ~heap[a].live

-----------------------------------------------------------------------------
(* The release of handle objects.                                          *)

(* C22 as stated: the object that into_abi boxed on the native heap is no  *)
(* longer allocated after one call of the exported drop function on its    *)
(* handle pointer, so into_abi followed by drop leaves no live allocation. *)
C22_DropReleasesObject ==
    (pc = "done" /\ call.op = "drop_handle") =>
        /\ ~heap[call.arg.raw.ptr].live
        /\ (native = {} /\ foreign = {}) => \A a \in Addrs : ~heap[a].live

-----------------------------------------------------------------------------
(* Release of owned raw buffers by the generated code.                     *)

Ended == pc = "done" /\ call.op = "run"

Trace == result.value

EventsOn(buffer, kind) ==
    {i \in DOMAIN Trace : Trace[i].ptr = buffer.raw.ptr /\ Trace[i].event = kind}

(* The buffer was read while live, then released once by its own release   *)
(* binding, and not touched afterwards.                                    *)
ReleasedOnceAfterUse(buffer) ==
    LET reads == EventsOn(buffer, "read")
        releases == EventsOn(buffer, "release")
    IN /\ Cardinality(releases) = 1
       /\ reads # {}
       /\ \A r \in releases :
             /\ Trace[r].matching
             /\ Trace[r].by = buffer.release
             /\ \A i \in reads : i < r
       /\ ~heap[buffer.raw.ptr].live

(* The list is built by ToList with the indexed-element accessor of the    *)
(* type, the string by decoding the buffer.                                *)
ConvertedBy(buffer) ==
    \A i \in EventsOn(buffer, "read") :
        IF buffer.release = DropString
        THEN Trace[i].by = "GetString" /\ Trace[i].with[1] = buffer.var
        ELSE \E export \in {e.item : e \in NamedExports(types)} :
                /\ buffer.release = drop_vec_fn(export)
                /\ Trace[i].with[1] = index_fn(export)

C21_WitnessString ==
    /\ Ended
    /\ \E buffer \in foreign :
          /\ buffer.release = DropString
          /\ buffer.raw.len > 0
          /\ EventsOn(buffer, "release") # {}

-----------------------------------------------------------------------------
(* Properties of the descriptions the macro builds from syntax.            *)

Parsed(op) == pc = "done" /\ call.op = op

TakesSelf(signature) ==
    \E i \in DOMAIN signature.inputs :
        \/ signature.inputs[i].arg = "Receiver"
        \/ signature.inputs[i].pat = PatIdent("self")

SupportedTypes == {"i32", "u8", "bool", "String"}

HasUnsupportedArgument(signature) ==
    \E i \in DOMAIN signature.inputs :
        signature.inputs[i].arg = "Typed" /\ signature.inputs[i].ty \notin SupportedTypes

HasUnsupportedReturn(signature) ==
    signature.output # None /\ Unwrap(signature.output) \notin SupportedTypes

(* The name of the input at a position of the input list, counted from     *)
(* zero.                                                                   *)
ArgumentName(signature, position) ==
    LET pat == signature.inputs[position + 1].pat
    IN IF pat.pat = "Ident" THEN pat.ident
       ELSE "__arg" \o <<"0", "1", "2", "3">>[position + 1]

(* The successful result has one argument per input, in declaration order, *)
(* with the name of the input, and no receiver.                            *)
DescribesInputs(signature, fn) ==
    /\ Len(fn.args) = Len(signature.inputs)
    /\ \A i \in DOMAIN fn.args : fn.args[i].ident = ArgumentName(signature, i - 1)
    /\ fn.receiver = None
    /\ fn.ident = signature.ident

(* C23 as stated: from_signature returns an error for an async signature,  *)
(* for a signature that takes any form of self and for an argument of an   *)
(* unsupported type, and Ok with one named argument per input and no       *)
(* receiver for every other signature.                                     *)
C23_FromSignatureAsStated ==
    Parsed("from_signature") =>
        IF \/ call.arg.asyncness
           \/ TakesSelf(call.arg)
           \/ HasUnsupportedArgument(call.arg)
        THEN IsErr(result)
        ELSE IsOk(result) /\ DescribesInputs(call.arg, result.value)

(* C23: from_signature returns an error for an async signature, for a      *)
(* signature that takes any form of self, for an argument of an            *)
(* unsupported type and for a return type that does not convert; for every *)
(* other signature it returns Ok with one argument per input in            *)
(* declaration order, named by the identifier of the input or by __arg and *)
(* the position of the input counted from zero, and without a receiver.    *)
C23_FromSignature ==
    Parsed("from_signature") =>
        IF \/ call.arg.asyncness
           \/ TakesSelf(call.arg)
           \/ HasUnsupportedArgument(call.arg)
           \/ HasUnsupportedReturn(call.arg)
        THEN IsErr(result)
        ELSE IsOk(result) /\ DescribesInputs(call.arg, result.value)

(* A signature with two inputs, the second without a plain identifier, was *)
(* converted.                                                              *)
C23_Witness ==
    /\ Parsed("from_signature")
    /\ IsOk(result)
    /\ Len(result.value.args) = 2
    /\ call.arg.inputs[2].pat = PatWild
    /\ result.value.args[2].ident = "__arg1"

SingleIdentifier(self_ty) ==
    /\ self_ty.ty = "Path"
    /\ ~self_ty.leading_colon
    /\ Len(self_ty.segments) = 1
    /\ ~self_ty.segments[1].arguments

(* The conversions of the method signatures of an impl block, in           *)
(* declaration order.                                                      *)
MethodConversions(item) ==
    LET methods == SelectSeq(item.items, IsMethod)
    IN [i \in DOMAIN methods |-> from_signature(methods[i].sig)]

(* C24: from_item returns an error for a trait impl, for an impl with      *)
(* generic parameters and for a self type that is not a single identifier; *)
(* otherwise it skips the items that are not methods and returns Ok with   *)
(* one description per method in declaration order if every method         *)
(* signature converts, and the error of the first method that fails, with  *)
(* no list of methods, if one does not.                                    *)
C24_FromItemAllOrNothing ==
    Parsed("from_item") =>
        LET outs == MethodConversions(call.arg)
            failing == {i \in DOMAIN outs : IsErr(outs[i])}
        IN IF \/ call.arg.trait_ # None
              \/ call.arg.generics # <<>>
              \/ ~SingleIdentifier(call.arg.self_ty)
           THEN IsErr(result)
           ELSE IF failing = {}
           THEN /\ IsOk(result)
                /\ result.value.ty_ident = call.arg.self_ty.segments[1].ident
                /\ Len(result.value.methods) = Len(outs)
                /\ \A i \in DOMAIN outs : result.value.methods[i] = outs[i].value
           ELSE /\ IsErr(result)
                /\ \E first \in failing :
                      /\ \A j \in failing : first <= j
                      /\ result = outs[first]

(* An impl block with a constant between two methods was converted, and    *)
(* one whose second method fails after a first that converts was rejected. *)
C24_Witness ==
    /\ Parsed("from_item")
    /\ IsOk(result)
    /\ Len(call.arg.items) = 3
    /\ call.arg.items[2].item = "Const"
    /\ Len(result.value.methods) = 2

C24_WitnessRejected ==
    /\ Parsed("from_item")
    /\ IsErr(result)
    /\ call.arg.trait_ = None /\ call.arg.generics = <<>>
    /\ SingleIdentifier(call.arg.self_ty)
    /\ Len(call.arg.items) = 2
    /\ IsMethod(call.arg.items[1]) /\ IsOk(from_signature(call.arg.items[1].sig))
    /\ IsMethod(call.arg.items[2])

-----------------------------------------------------------------------------
(* The tileset.                                                            *)

Generating == call.op = "generate_tileset" /\ pc \in {"run", "done"}

Count(tiles, tile) == Cardinality({i \in DOMAIN tiles : tiles[i] = tile})

SimpleTiles ==
    {[tile |-> "Simple", kind |-> "Suit", of |-> suit, number |-> number] :
        suit \in {"Coins", "Bamboo", "Characters"}, number \in 1..9}

HonorTiles ==
    {[tile |-> "Honor", kind |-> "Dragon", of |-> dragon, number |-> 0] :
        dragon \in {"Red", "Green", "White"}}
    \cup {[tile |-> "Honor", kind |-> "Wind", of |-> wind, number |-> 0] :
        wind \in {"East", "South", "West", "North"}}

BonusTiles ==
    {[tile |-> "Bonus", kind |-> "Flower", of |-> flower, number |-> 0] :
        flower \in {"PlumBlossom", "Orchid", "Chrysanthemum", "Bamboo"}}
    \cup {[tile |-> "Bonus", kind |-> "Season", of |-> season, number |-> 0] :
        season \in {"Spring", "Summer", "Autumn", "Winter"}}

-----------------------------------------------------------------------------
(* References to the raw type of a data-carrying enum.                     *)

(* The exported enum a call of either reference function is about.         *)
ReferredExport ==
    IF call.op = "raw_type_from_schema" THEN types[call.arg.name] ELSE call.arg

RefersToValueDataEnum ==
    /\ pc = "done"
    /\ call.op \in {"quote_raw_type_reference", "raw_type_from_schema"}
    /\ call.op = "raw_type_from_schema" =>
          call.arg.kind = "Enum" /\ call.arg.name \in DOMAIN types
    /\ ReferredExport.schema.kind = "Enum"
    /\ ~UnitOnly(ReferredExport.schema)
    /\ ReferredExport.binding_style = "Value"
    /\ IsOk(result)
    /\ IsOk(quote_complex_enum_binding(ReferredExport, ReferredExport.schema, types))

(* The names of the declarations quote_complex_enum_binding emits.         *)
DeclaredNames(export) ==
    {d.ident : d \in Range(quote_complex_enum_binding(export, export.schema, types).value)}

(* C26 as stated: the raw type name a reference to a Value-style           *)
(* data-carrying enum uses, inside RawEnum<...> or after global::, is the  *)
(* name of a declaration quote_complex_enum_binding emits for that enum.   *)
C26_RawReferencesDeclared ==
    RefersToValueDataEnum =>
        \E name \in DeclaredNames(ReferredExport) :
            result.value \in {"RawEnum<" \o name \o ">", "global::" \o name}

-----------------------------------------------------------------------------
(* Names of the declarations of one generation pass.                       *)

DistinctExports ==
    /\ \A a, b \in Exports(types) : a.name = b.name => a = b
    /\ \A e \in Exports(types) :
          \A i, j \in DOMAIN e.schema.variants :
              e.schema.variants[i].name = e.schema.variants[j].name => i = j

(* C27 as stated: when the exported types have pairwise distinct names and *)
(* every enum has pairwise distinct variants, the declarations the enum    *)
(* generators emit for them have pairwise distinct names.                  *)
C27_DistinctDeclarationNames ==
    (call.op = "generate" /\ IsOk(result) /\ DistinctExports) =>
        \A i, j \in DOMAIN result.value :
            result.value[i].ident = result.value[j].ident => i = j

=============================================================================
